---- MODULE Spec2Model ----
(***************************************************************************)
(* Bulk CSV analysis pipeline of SeoWatch: the in-memory job store         *)
(* (server/storage.ts), the bulk job runner (server/bulk-processor.ts),    *)
(* the CSV helpers (server/csv-processor.ts) and the bulk routes           *)
(* (server/routes.ts).                                                     *)
(*                                                                         *)
(* Granularity.  The server is one Node.js process.  MemStorage methods    *)
(* are async functions over in-memory maps, so an `await storage.x()`      *)
(* resumes in the same turn of the event loop.  A handler therefore        *)
(* runs without interruption from one real I/O wait to the next: the       *)
(* read of the upload, the page fetches and their timers, the write of     *)
(* the result file, rename and unlink.  Each action below is one such      *)
(* uninterrupted stretch.                                                  *)
(***************************************************************************)
EXTENDS Bags, FiniteSets, Integers, Sequences, TLC

VARIABLES
  bulkJobs,        \* MemStorage.bulkJobs: job id -> BulkAnalysisJob
  bulkUrlResults,  \* MemStorage.bulkUrlResults, as a bag (its keys are random ids)
  processingJobs,  \* BulkAnalysisQueue.processingJobs
  uploadFiles,     \* uploads/<jobId>.csv: job id -> CSV file
  resultFiles,     \* results/<jobId>_results.csv: job id -> lines written
  run,             \* per job id: the position and locals of its processJob run
  uploadReq,       \* per job id: the POST /api/bulk/upload request that created it
  deleteReq,       \* per job id: the DELETE /api/bulk/jobs/:jobId request in flight
  consoleLog,      \* the lines written by console.log / console.error in processJob
  budget,          \* runs and URL analyses that may still be started (bounds the model)
  fetches,         \* per job id: page fetches still in flight after their processUrl call was rejected by its timer
  tempFiles,       \* the files multer has stored in uploads/ under a temporary name
  httpResponse,    \* the last answer of a request that did nothing but answer
  call             \* the call of a helper function under study: its input and its result

vars == <<bulkJobs, bulkUrlResults, processingJobs, uploadFiles, resultFiles,
          run, uploadReq, deleteReq, consoleLog, budget, fetches, tempFiles,
          httpResponse, call>>

(***************************************************************************)
(* Bounds.                                                                 *)
(***************************************************************************)
MaxJobs == 1
MaxRows == 5
MaxRuns == 2
MaxAnalyses == 4

JobIds == 1..MaxJobs
UnknownId == MaxJobs + 1
\* getSessionId: the address and the user agent of the request; uploads come
\* from the first session, DELETE requests from both
Uploader == "10.0.0.1-curl"
Sessions == {Uploader, "10.0.0.2-firefox"}

(***************************************************************************)
(* Strings.                                                                *)
(***************************************************************************)
StartsWith(s, p) == Len(s) >= Len(p) /\ SubSeq(s, 1, Len(p)) = p

EndsWith(s, p) == Len(s) >= Len(p) /\ SubSeq(s, Len(s) - Len(p) + 1, Len(s)) = p

Includes(s, p) ==
  \E k \in 1..(Len(s) - Len(p) + 1) : SubSeq(s, k, k + Len(p) - 1) = p

RECURSIVE TrimStart(_)
TrimStart(s) ==
  IF Len(s) > 0 /\ SubSeq(s, 1, 1) = " " THEN TrimStart(SubSeq(s, 2, Len(s))) ELSE s

RECURSIVE TrimEnd(_)
TrimEnd(s) ==
  IF Len(s) > 0 /\ SubSeq(s, Len(s), Len(s)) = " "
  THEN TrimEnd(SubSeq(s, 1, Len(s) - 1)) ELSE s

Trim(s) == TrimEnd(TrimStart(s))

(***************************************************************************)
(* csv-processor.ts: parseCSVUrls.  A CSV file is its header and its data  *)
(* rows; csv-parse (columns: true, trim: true) hands each data row over as *)
(* a record from header name to trimmed cell.                              *)
(***************************************************************************)
urlColumns == <<"url", "URL", "website", "link", "domain", "site">>

RowRecord(header, cells) ==
  [c \in {header[k] : k \in 1..Len(header)} |->
     Trim(cells[CHOOSE k \in 1..Len(header) :
                  /\ header[k] = c
                  /\ \A m \in (k + 1)..Len(header) : header[m] # c])]

\* lines 218-223: the first of urlColumns with a non-empty trimmed value
RECURSIVE FindInColumns(_, _)
FindInColumns(row, k) ==
  IF k > Len(urlColumns) THEN ""
  ELSE IF urlColumns[k] \in DOMAIN row /\ Trim(row[urlColumns[k]]) # ""
       THEN Trim(row[urlColumns[k]])
       ELSE FindInColumns(row, k + 1)

\* Object.values(row), line 227, lists the values by key: first the keys
\* that are array indices ("0", "7", "2024"), in ascending order, then the
\* other keys in the order in which the parser has set them.
IsDigit(c) == \E d \in 0..9 : ToString(d) = c

IsArrayIndex(key) ==
  /\ Len(key) \in 1..9
  /\ \A k \in 1..Len(key) : IsDigit(SubSeq(key, k, k))
  /\ Len(key) > 1 => SubSeq(key, 1, 1) # "0"

RECURSIVE IndexValue(_)
IndexValue(key) ==
  IF key = "" THEN 0
  ELSE 10 * IndexValue(SubSeq(key, 1, Len(key) - 1))
         + (CHOOSE d \in 0..9 : ToString(d) = SubSeq(key, Len(key), Len(key)))

RECURSIVE Ascending(_)
Ascending(keys) ==
  IF keys = {} THEN <<>>
  ELSE LET least == CHOOSE key \in keys :
                      \A other \in keys : IndexValue(key) <= IndexValue(other)
       IN <<least>> \o Ascending(keys \ {least})

RECURSIVE InsertionOrder(_, _)
InsertionOrder(header, k) ==
  IF k > Len(header) THEN <<>>
  ELSE (IF IsArrayIndex(header[k]) \/ \E m \in 1..(k - 1) : header[m] = header[k]
        THEN <<>> ELSE <<header[k]>>)
       \o InsertionOrder(header, k + 1)

ObjectKeys(header) ==
  Ascending({header[k] : k \in {m \in 1..Len(header) : IsArrayIndex(header[m])}})
    \o InsertionOrder(header, 1)

\* lines 226-233: the first value that looks like a URL
RECURSIVE FindUrlLike(_, _, _)
FindUrlLike(row, keys, k) ==
  IF k > Len(keys) THEN ""
  ELSE LET value == row[keys[k]] IN
       IF value # "" /\ (Includes(value, "http") \/ Includes(value, "www.")
                          \/ Includes(value, "."))
       THEN Trim(value)
       ELSE FindUrlLike(row, keys, k + 1)

FoundUrl(row, header) ==
  LET byColumn == FindInColumns(row, 1) IN
  IF byColumn # "" THEN byColumn ELSE FindUrlLike(row, ObjectKeys(header), 1)

\* lines 235-241
EnsureProtocol(foundUrl) ==
  IF ~StartsWith(foundUrl, "http://") /\ ~StartsWith(foundUrl, "https://")
  THEN "https://" \o foundUrl
  ELSE foundUrl

\* lines 213-243 for the data rows first..last, in their order
RECURSIVE ParseRows(_, _, _, _)
ParseRows(header, rows, first, last) ==
  IF first > last THEN <<>>
  ELSE IF first = last
  THEN LET foundUrl == FoundUrl(RowRecord(header, rows[first]), header) IN
       IF foundUrl # "" THEN <<EnsureProtocol(foundUrl)>> ELSE <<>>
  ELSE ParseRows(header, rows, first, (first + last) \div 2)
         \o ParseRows(header, rows, (first + last) \div 2 + 1, last)

\* the parser rejects a file in which a record has more or fewer fields
\* than the header; parseCSVUrls then rejects (line 247)
ParseRejects(file) ==
  \E k \in 1..Len(file.rows) : Len(file.rows[k]) # Len(file.header)

\* line 211: the parser trims the names of the header as it trims the cells
Columns(header) == [k \in 1..Len(header) |-> Trim(header[k])]

parseCSVUrls(file) == ParseRows(Columns(file.header), file.rows, 1, Len(file.rows))

\* the size of a file in bytes: its lines, each with its separators and its
\* line feed
RECURSIVE LineBytes(_)
LineBytes(cells) ==
  IF cells = <<>> THEN 0 ELSE Len(Head(cells)) + 1 + LineBytes(Tail(cells))

RECURSIVE RowsBytes(_, _, _)
RowsBytes(rows, first, last) ==
  IF first > last THEN 0
  ELSE IF first = last THEN LineBytes(rows[first])
  ELSE RowsBytes(rows, first, (first + last) \div 2)
         + RowsBytes(rows, (first + last) \div 2 + 1, last)

CsvFile(header, rows) ==
  [header |-> header, rows |-> rows,
   size |-> LineBytes(header) + RowsBytes(rows, 1, Len(rows))]

(***************************************************************************)
(* The uploads of the model.  Row k of a sample file names site k; rows 1  *)
(* and 2 name the same site, every fourth row has no URL, every third row  *)
(* has no scheme.                                                          *)
(***************************************************************************)
SampleCell(k) ==
  IF k % 4 = 0 THEN ""
  ELSE IF k <= 2 THEN "https://site1.com"
  ELSE IF k % 3 = 0 THEN " site" \o ToString(k) \o ".com "
  ELSE "http://site" \o ToString(k) \o ".org"

SampleFile(n) ==
  CsvFile(<<"name", "url">>, [k \in 1..n |-> <<"row", SampleCell(k)>>])

FileRows == {1, MaxRows}

(***************************************************************************)
(* storage.ts: MemStorage.                                                 *)
(***************************************************************************)
\* lines 49-58: the id is a fresh random UUID, here the next unused number
createBulkJob(jobs, id, insertJob) ==
  [j \in DOMAIN jobs \cup {id} |-> IF j = id THEN insertJob ELSE jobs[j]]

\* variant of updateBulkJob: the stored job is replaced by the updates
updateBulkJobReplaces(jobs, jobId, updates) ==
  IF jobId \notin DOMAIN jobs THEN jobs
  ELSE [jobs EXCEPT ![jobId] = updates]

\* lines 64-71: { ...job, ...updates }, or nothing when the job is unknown
updateBulkJob(jobs, jobId, updates) ==
  IF jobId \notin DOMAIN jobs THEN jobs
  ELSE [jobs EXCEPT ![jobId] = updates @@ jobs[jobId]]

\* lines 66 and 70: what updateBulkJob returns, undefined or the stored job
UpdatedJob(jobs, jobId, updates) ==
  IF jobId \notin DOMAIN jobs THEN [undefined |-> TRUE]
  ELSE [undefined |-> FALSE, job |-> updateBulkJob(jobs, jobId, updates)[jobId]]

\* variant of createBulkUrlResult: a result that carries an error message
\* is not stored
createBulkUrlResultSkipsErrors(results, insertResult) ==
  IF "errorMessage" \in DOMAIN insertResult THEN results
  ELSE results (+) SetToBag({insertResult})

\* lines 79-88
createBulkUrlResult(results, insertResult) ==
  results (+) SetToBag({insertResult})

\* lines 90-93
getBulkUrlResults(results, jobId) ==
  {r \in BagToSet(results) : r.jobId = jobId}

(***************************************************************************)
(* bulk-processor.ts: the analysis of one page.  The fetch and the scoring *)
(* are outside this part of the model: a page that answers yields one of   *)
(* two sample results of performSeoAnalysis, chosen by its URL.            *)
(***************************************************************************)
\* line 15 sets 10; the model runs the same loop with smaller batches, so
\* that a file of MaxRows rows takes several of them
maxConcurrentUrls == 2

SeoTag(tag, content, status, deduction) ==
  [tag |-> tag, content |-> content, status |-> status, deduction |-> deduction]

SampleAnalysis(url) ==
  IF StartsWith(url, "https://")
  THEN [url |-> url, score |-> 100, breakdown |-> <<>>,
        tags |-> << SeoTag("Title", "A page title of forty-five characters, yes.", "good", 0),
                    SeoTag("Meta Description", "A description", "good", 0),
                    SeoTag("Meta Robots", "index, follow", "good", 0),
                    SeoTag("OG Title", "OG title", "good", 0),
                    SeoTag("OG Description", "OG description", "good", 0),
                    SeoTag("OG Image", "https://site/og.png", "good", 0),
                    SeoTag("Twitter Card", "summary_large_image", "good", 0),
                    SeoTag("Twitter Title", "Twitter title", "good", 0),
                    SeoTag("Twitter Description", "Twitter description", "good", 0),
                    SeoTag("Twitter Image", "https://site/tw.png", "good", 0) >>,
        previews |-> [facebook |-> [title |-> "OG title",
                                    description |-> "OG description",
                                    image |-> "https://site/og.png"],
                      twitter  |-> [title |-> "Twitter title",
                                    description |-> "Twitter description",
                                    card |-> "summary_large_image"]]]
  ELSE [url |-> url, score |-> 15,
        breakdown |-> << [tag |-> "Title", issue |-> "Missing title tag", deduction |-> 25] >>,
        tags |-> << SeoTag("Title", "-", "missing", 25),
                    SeoTag("Meta Description", "-", "missing", 20),
                    SeoTag("Meta Robots", "-", "missing", 5),
                    SeoTag("OG Title", "-", "missing", 5),
                    SeoTag("OG Description", "-", "missing", 5),
                    SeoTag("OG Image", "-", "missing", 5),
                    SeoTag("Twitter Card", "-", "missing", 5),
                    SeoTag("Twitter Title", "-", "missing", 5),
                    SeoTag("Twitter Description", "-", "missing", 5),
                    SeoTag("Twitter Image", "-", "missing", 5) >>,
        previews |-> [facebook |-> [title |-> "", description |-> "", image |-> ""],
                      twitter  |-> [title |-> "", description |-> "",
                                    card |-> "summary"]]]

\* lines 263-266
extractTagContent(tags, tagName) ==
  IF \E k \in 1..Len(tags) : tags[k].tag = tagName
  THEN tags[CHOOSE k \in 1..Len(tags) :
              /\ tags[k].tag = tagName
              /\ \A m \in 1..(k - 1) : tags[m].tag # tagName].content
  ELSE ""

\* new Date().toISOString(): the model has one instant
toISOString == "2025-08-13T10:30:00.000Z"

\* lines 152-169: the row of a page that was analysed
CsvResult(analysis) ==
  [url |-> analysis.url,
   seoScore |-> analysis.score,
   titleTag |-> extractTagContent(analysis.tags, "Title"),
   titleLength |-> Len(extractTagContent(analysis.tags, "Title")),
   metaDescription |-> extractTagContent(analysis.tags, "Meta Description"),
   metaDescriptionLength |-> Len(extractTagContent(analysis.tags, "Meta Description")),
   h1Tag |-> extractTagContent(analysis.tags, "H1"),
   ogTitle |-> analysis.previews.facebook.title,
   ogDescription |-> analysis.previews.facebook.description,
   ogImage |-> analysis.previews.facebook.image,
   twitterTitle |-> analysis.previews.twitter.title,
   twitterDescription |-> analysis.previews.twitter.description,
   twitterCard |-> analysis.previews.twitter.card,
   robotsTag |-> extractTagContent(analysis.tags, "Robots"),
   canonicalUrl |-> extractTagContent(analysis.tags, "Canonical"),
   analysisDate |-> toISOString]

\* lines 180-190: the Error processUrl rejects with
ProcessUrlError(url, errorMessage) ==
  "Failed to analyze " \o url \o ": " \o errorMessage

\* lines 71-89: the row of a page whose processUrl call was rejected
ErrorResult(url, reasonMessage) ==
  [url |-> url,
   seoScore |-> 0,
   titleTag |-> "",
   titleLength |-> 0,
   metaDescription |-> "",
   metaDescriptionLength |-> 0,
   h1Tag |-> "",
   ogTitle |-> "",
   ogDescription |-> "",
   ogImage |-> "",
   twitterTitle |-> "",
   twitterDescription |-> "",
   twitterCard |-> "",
   robotsTag |-> "",
   canonicalUrl |-> "",
   analysisDate |-> toISOString,
   errorMessage |-> IF reasonMessage # "" THEN reasonMessage ELSE "Analysis failed"]

\* What can go wrong with the page behind `url`: the 30 s timer of processUrl
\* fires first, or the fetch is rejected with the message of the axios error.
TimeoutMessage == "URL analysis timeout"

FailureMessages(url) ==
  IF StartsWith(url, "https://site1") THEN {TimeoutMessage}
  ELSE IF StartsWith(url, "https://") THEN {"Request failed with status code 404"}
  ELSE {""}

(***************************************************************************)
(* csv-processor.ts: validateCSVFile and the lines handed to the result    *)
(* file by generateResultsCSV.                                             *)
(***************************************************************************)
maxSizeBytes == 10 * 1024 * 1024

\* (n / 1024 / 1024).toFixed(2)
ToFixed2(n) ==
  LET hundredths == (n \div (1024 * 1024)) * 100
                      + ((n % (1024 * 1024)) * 200 + 1024 * 1024) \div (2 * 1024 * 1024)
      cents == hundredths % 100
  IN ToString(hundredths \div 100) \o "."
       \o (IF cents < 10 THEN "0" ELSE "") \o ToString(cents)

\* variant of CountVerdict: a file of 1000 URLs is refused
CountVerdictBelowThousand(count) ==
  IF count = 0
  THEN [valid |-> FALSE,
        error |-> "No valid URLs found in CSV file. Please ensure your CSV has a column with URLs."]
  ELSE IF count >= 1000
  THEN [valid |-> FALSE,
        error |-> "CSV contains " \o ToString(count)
                    \o " URLs. Maximum allowed is 1000 URLs per batch."]
  ELSE [valid |-> TRUE, urlCount |-> count]

\* lines 343-360
CountVerdict(count) ==
  IF count = 0
  THEN [valid |-> FALSE,
        error |-> "No valid URLs found in CSV file. Please ensure your CSV has a column with URLs."]
  ELSE IF count > 1000
  THEN [valid |-> FALSE,
        error |-> "CSV contains " \o ToString(count)
                    \o " URLs. Maximum allowed is 1000 URLs per batch."]
  ELSE [valid |-> TRUE, urlCount |-> count]

\* lines 325-367; an exception of stat or of parseCSVUrls is caught
validateCSVFile(file) ==
  IF file.size > maxSizeBytes
  THEN [valid |-> FALSE,
        error |-> "File size " \o ToFixed2(file.size) \o "MB exceeds maximum of "
                    \o ToString(maxSizeBytes \div (1024 * 1024)) \o "MB"]
  ELSE IF ParseRejects(file)
  THEN [valid |-> FALSE, error |-> "Invalid CSV file: Invalid Record Length"]
  ELSE CountVerdict(Len(parseCSVUrls(file)))

\* parseCSVUrls and validateCSVFile of the sample files, evaluated once; a
\* sample file is told from the others by its number of rows
SampleUrls == [n \in FileRows |-> parseCSVUrls(SampleFile(n))]
SampleValidation == [n \in FileRows |-> validateCSVFile(SampleFile(n))]
ReadUrls(file) == SampleUrls[Len(file.rows)]

\* lines 259-279
columns ==
  <<"URL", "SEO_Score", "Title_Tag", "Title_Length", "Meta_Description",
    "Meta_Description_Length", "H1_Tag", "OG_Title", "OG_Description", "OG_Image",
    "Twitter_Title", "Twitter_Description", "Twitter_Card", "Robots_Tag",
    "Canonical_URL", "Analysis_Date", "Score_Breakdown_Summary",
    "Breakdown_Details", "Error_Message">>

\* JSON.stringify of a list of {tag, issue, deduction} objects
RECURSIVE JsonObjects(_)
JsonObjects(scoreBreakdown) ==
  IF scoreBreakdown = <<>> THEN ""
  ELSE "{\"tag\":\"" \o Head(scoreBreakdown).tag
         \o "\",\"issue\":\"" \o Head(scoreBreakdown).issue
         \o "\",\"deduction\":" \o ToString(Head(scoreBreakdown).deduction) \o "}"
         \o (IF Tail(scoreBreakdown) = <<>> THEN "" ELSE ",")
         \o JsonObjects(Tail(scoreBreakdown))

JSONstringify(scoreBreakdown) == "[" \o JsonObjects(scoreBreakdown) \o "]"

\* lines 281-301: the cells of the line of one row, as csv-stringify writes
\* them: a number in decimal, a property the row does not have as an empty
\* cell
CsvLine(result) ==
  <<result.url, ToString(result.seoScore), result.titleTag,
    ToString(result.titleLength), result.metaDescription,
    ToString(result.metaDescriptionLength), result.h1Tag, result.ogTitle,
    result.ogDescription, result.ogImage, result.twitterTitle,
    result.twitterDescription, result.twitterCard, result.robotsTag,
    result.canonicalUrl, result.analysisDate,
    IF "breakdownSummary" \in DOMAIN result THEN result.breakdownSummary ELSE "",
    IF "scoreBreakdown" \in DOMAIN result
    THEN JSONstringify(result.scoreBreakdown) ELSE "",
    IF "errorMessage" \in DOMAIN result THEN result.errorMessage ELSE "">>

\* lines 257-317: the header and one line per row
generateResultsCSV(results) ==
  <<columns>> \o [k \in 1..Len(results) |-> CsvLine(results[k])]

(***************************************************************************)
(* The state of one processJob run.  slots[k] is the promise returned by   *)
(* processUrl for urls[k]; i is the loop variable of line 57.              *)
(***************************************************************************)
NotStarted == [status |-> "none", message |-> ""]
Pending    == [status |-> "pending", message |-> ""]
Fulfilled  == [status |-> "fulfilled", message |-> ""]
Rejected(message) == [status |-> "rejected", message |-> message]

NoRun == [pc |-> "idle", n |-> 0, urls |-> <<>>, i |-> 0, slots |-> <<>>,
          results |-> <<>>, outcome |-> "none"]

Min(a, b) == IF a < b THEN a ELSE b

\* line 58: the positions of urls.slice(i, i + batchSize)
Batch(urls, i) == (i + 1)..Min(i + maxConcurrentUrls, Len(urls))

\* variant of StartBatch: only the first call of the batch is started
StartBatchFirstOnly(r, i) ==
  [r EXCEPT !.pc = "batch", !.i = i,
            !.slots = [k \in 1..Len(r.urls) |->
                         IF k = i + 1 THEN Pending ELSE r.slots[k]]]

\* line 59: every processUrl call of the batch is started
StartBatch(r, i) ==
  [r EXCEPT !.pc = "batch", !.i = i,
            !.slots = [k \in 1..Len(r.urls) |->
                         IF k \in Batch(r.urls, i) THEN Pending ELSE r.slots[k]]]

\* variants of CollectBatch: the rows of the fulfilled calls before the rows
\* of the rejected ones; the rows of the fulfilled calls only
RECURSIVE SelectRows(_, _, _, _)
SelectRows(urls, slots, ks, status) ==
  IF ks = <<>> THEN <<>>
  ELSE (IF slots[Head(ks)].status # status THEN <<>>
        ELSE IF status = "fulfilled"
             THEN <<CsvResult(SampleAnalysis(urls[Head(ks)]))>>
             ELSE <<ErrorResult(urls[Head(ks)], slots[Head(ks)].message)>>)
       \o SelectRows(urls, slots, Tail(ks), status)

CollectBatchFulfilledFirst(urls, slots, i) ==
  LET ks == [j \in 1..Cardinality(Batch(urls, i)) |-> i + j] IN
  SelectRows(urls, slots, ks, "fulfilled") \o SelectRows(urls, slots, ks, "rejected")

CollectBatchFulfilledOnly(urls, slots, i) ==
  LET ks == [j \in 1..Cardinality(Batch(urls, i)) |-> i + j] IN
  SelectRows(urls, slots, ks, "fulfilled")

\* lines 63-91: one row per call of the batch, in the order of the batch
CollectBatch(urls, slots, i) ==
  [j \in 1..Cardinality(Batch(urls, i)) |->
     IF slots[i + j].status = "fulfilled"
     THEN CsvResult(SampleAnalysis(urls[i + j]))
     ELSE ErrorResult(urls[i + j], slots[i + j].message)]

\* variants of ProcessedCount: the index instead of the count; one too many
ProcessedCountIsIndex(i, j) == i + j
ProcessedCountOneMore(i, j) == i + j + 2

\* line 94, with j counted from 0
ProcessedCount(i, j) == i + j + 1

\* line 28 and line 122
AlreadyProcessedLine(id) == <<"Job", id, "is already being processed">>
FailedLine(id) == <<"Job", id, "failed">>

\* variants of FailRun: the catch block attaches the path of the result
\* file; the id is not released
FailRunAttachesPath(id) ==
  /\ consoleLog' = consoleLog \cup {FailedLine(id)}
  /\ bulkJobs' = updateBulkJob(bulkJobs, id,
                   [status |-> "failed", completedAt |-> TRUE, resultFilePath |-> id])
  /\ processingJobs' = processingJobs \ {id}
  /\ run' = [run EXCEPT ![id].pc = "idle", ![id].outcome = "failed"]

FailRunKeepsId(id) ==
  /\ consoleLog' = consoleLog \cup {FailedLine(id)}
  /\ bulkJobs' = updateBulkJob(bulkJobs, id,
                   [status |-> "failed", completedAt |-> TRUE])
  /\ processingJobs' = processingJobs
  /\ run' = [run EXCEPT ![id].pc = "idle", ![id].outcome = "failed"]

\* lines 121-132: catch and finally
FailRun(id) ==
  /\ consoleLog' = consoleLog \cup {FailedLine(id)}
  /\ bulkJobs' = updateBulkJob(bulkJobs, id,
                   [status |-> "failed", completedAt |-> TRUE])
  /\ processingJobs' = processingJobs \ {id}
  /\ run' = [run EXCEPT ![id].pc = "idle", ![id].outcome = "failed"]

\* variant of AlreadyProcessing: no guard
NeverAlreadyProcessing(id) == FALSE

\* line 27
AlreadyProcessing(id) == id \in processingJobs

\* lines 32-49 for a job that is in the store: claim it and open the upload
StartRun(id) ==
  /\ processingJobs' = processingJobs \cup {id}
  /\ bulkJobs' = updateBulkJob(bulkJobs, id,
                   [status |-> "processing", processedUrls |-> 0])
  /\ run' = [run EXCEPT ![id] = [NoRun EXCEPT !.pc = "parse", !.n = run[id].n + 1]]

\* The model stops starting runs when the budget is used up.
Affordable(urlCount) == budget.runs >= 1 /\ budget.analyses >= urlCount
Spend(urlCount) == [runs |-> budget.runs - 1, analyses |-> budget.analyses - urlCount]

NoResponse == [route |-> "none"]
NoCall == [function |-> "none"]

(***************************************************************************)
(* Init: an empty store, an idle queue, empty uploads/ and results/.       *)
(***************************************************************************)
Init ==
  /\ bulkJobs = <<>>
  /\ bulkUrlResults = EmptyBag
  /\ processingJobs = {}
  /\ uploadFiles = <<>>
  /\ resultFiles = <<>>
  /\ run = [id \in JobIds |-> NoRun]
  /\ uploadReq = [id \in JobIds |-> [pc |-> "none"]]
  /\ deleteReq = [id \in JobIds |-> [pc |-> "idle", hasResult |-> FALSE]]
  /\ consoleLog = {}
  /\ budget = [runs |-> MaxRuns, analyses |-> MaxAnalyses]
  /\ fetches = [id \in JobIds |-> 0]
  /\ tempFiles = {}
  /\ httpResponse = NoResponse
  /\ call = NoCall

(***************************************************************************)
(* routes.ts: POST /api/bulk/upload.                                       *)
(***************************************************************************)
\* csv-processor.ts, lines 373-379: the file is unlinked
cleanupFile(files, name) == files \ {name}

\* lines 964-987: validate, create the job, start the rename.  multer has
\* stored the upload in uploads/ under a temporary name, here the job's id
Upload(sessionId, n) ==
  \E id \in {Cardinality(DOMAIN bulkJobs) + 1} \cap JobIds :
  \E validation \in {SampleValidation[n]} :
     /\ validation.valid
     /\ Affordable(validation.urlCount)
     /\ budget' = Spend(validation.urlCount)
     /\ bulkJobs' = createBulkJob(bulkJobs, id,
                      [userSession |-> sessionId, filename |-> "urls.csv",
                       totalUrls |-> validation.urlCount, processedUrls |-> 0,
                       status |-> "pending"])
     /\ uploadReq' = [uploadReq EXCEPT ![id] = [pc |-> "rename", file |-> SampleFile(n)]]
     /\ tempFiles' = tempFiles \cup {id}
     /\ UNCHANGED <<bulkUrlResults, processingJobs, uploadFiles, resultFiles,
                    run, deleteReq, consoleLog, fetches, httpResponse, call>>

\* lines 987-996: the rename is done; processJob is called and runs up to
\* its first wait
UploadRenamed(id) ==
  /\ uploadReq[id].pc = "rename"
  /\ uploadReq' = [uploadReq EXCEPT ![id].pc = "done"]
  /\ tempFiles' = tempFiles \ {id}
  /\ uploadFiles' = [j \in DOMAIN uploadFiles \cup {id} |->
                       IF j = id THEN uploadReq[id].file ELSE uploadFiles[j]]
  /\ IF AlreadyProcessing(id)
     THEN UNCHANGED <<bulkJobs, processingJobs, run>>
     ELSE StartRun(id)
  /\ UNCHANGED <<bulkUrlResults, resultFiles, deleteReq, budget, consoleLog,
                 fetches, httpResponse, call>>

\* lines 998-1006: the rename failed; the request answers 500
UploadRenameFailed(id) ==
  /\ uploadReq[id].pc = "rename"
  /\ uploadReq' = [uploadReq EXCEPT ![id].pc = "done"]
  /\ tempFiles' = cleanupFile(tempFiles, id)
  /\ UNCHANGED <<bulkJobs, bulkUrlResults, processingJobs, uploadFiles,
                 resultFiles, run, deleteReq, budget, consoleLog,
                 fetches, httpResponse, call>>

(***************************************************************************)
(* bulk-processor.ts: BulkAnalysisQueue.processJob.                        *)
(***************************************************************************)
\* lines 27-30: the job is already being processed
ProcessJobSkipped(id) ==
  /\ AlreadyProcessing(id)
  /\ consoleLog' = consoleLog \cup {AlreadyProcessedLine(id)}
  /\ UNCHANGED <<bulkJobs, bulkUrlResults, processingJobs, uploadFiles,
                 resultFiles, run, uploadReq, deleteReq, budget,
                 fetches, tempFiles, httpResponse, call>>

\* lines 32-40 and 121-132 for an id the store does not know: getBulkJob
\* finds nothing, the catch block updates nothing, finally releases the id
ProcessJobUnknown(id) ==
  /\ ~AlreadyProcessing(id)
  /\ id \notin DOMAIN bulkJobs
  /\ bulkJobs' = updateBulkJob(bulkJobs, id,
                   [status |-> "failed", completedAt |-> TRUE])
  /\ processingJobs' = (processingJobs \cup {id}) \ {id}
  /\ consoleLog' = consoleLog \cup {FailedLine(id)}
  /\ UNCHANGED <<bulkUrlResults, uploadFiles, resultFiles, run, uploadReq,
                 deleteReq, budget,
                 fetches, tempFiles, httpResponse, call>>

\* a further call of processJob for a job of the store (a duplicate trigger)
ProcessJobAgain(id) ==
  /\ ~AlreadyProcessing(id)
  /\ id \in DOMAIN bulkJobs
  /\ Affordable(bulkJobs[id].totalUrls)
  /\ budget' = Spend(bulkJobs[id].totalUrls)
  /\ StartRun(id)
  /\ UNCHANGED <<bulkUrlResults, uploadFiles, resultFiles, uploadReq, deleteReq, consoleLog,
                 fetches, tempFiles, httpResponse, call>>

\* lines 107-109: all batches are done, generateResultsCSV is started
StartWrite(r) == [r EXCEPT !.pc = "write"]

\* lines 49-61: the upload was read; the first batch is started
ParseDone(id) ==
  /\ run[id].pc = "parse"
  /\ id \in DOMAIN uploadFiles
  /\ \E urls \in {ReadUrls(uploadFiles[id])} :
       \E r \in {[run[id] EXCEPT !.urls = urls,
                                 !.slots = [k \in 1..Len(urls) |-> NotStarted]]} :
         run' = [run EXCEPT ![id] = IF Len(urls) > 0 THEN StartBatch(r, 0)
                                    ELSE StartWrite(r)]
  /\ UNCHANGED <<bulkJobs, bulkUrlResults, processingJobs, uploadFiles,
                 resultFiles, uploadReq, deleteReq, budget, consoleLog,
                 fetches, tempFiles, httpResponse, call>>

\* line 49 rejects: uploads/<jobId>.csv is missing or cannot be read
ParseFailed(id) ==
  /\ run[id].pc = "parse"
  /\ FailRun(id)
  /\ UNCHANGED <<bulkUrlResults, uploadFiles, resultFiles, uploadReq,
                 deleteReq, budget,
                 fetches, tempFiles, httpResponse, call>>

\* lines 61-105, entered when the last call of the batch has settled: the
\* rows are collected, the progress is stored for j = 0, 1, ..., and the
\* next batch or the write of the result file is started
BatchSettled(id, r) ==
  \E size \in {Cardinality(Batch(r.urls, r.i))} :
    \E r2 \in {[r EXCEPT !.results = r.results \o CollectBatch(r.urls, r.slots, r.i)]} :
      /\ bulkJobs' = updateBulkJob(bulkJobs, id,
                       [processedUrls |-> ProcessedCount(r.i, size - 1)])
      /\ run' = [run EXCEPT ![id] =
                   IF r.i + maxConcurrentUrls < Len(r.urls)
                   THEN StartBatch(r2, r.i + maxConcurrentUrls)
                   ELSE StartWrite(r2)]

\* processUrl, lines 149-190: the race of urls[k] is decided, the UrlResult
\* is stored and the promise settles
Settle(id, k, slot, insertResult) ==
  /\ run[id].pc = "batch"
  /\ k \in Batch(run[id].urls, run[id].i)
  /\ run[id].slots[k].status = "pending"
  /\ bulkUrlResults' = createBulkUrlResult(bulkUrlResults, insertResult)
  /\ \E r \in {[run[id] EXCEPT !.slots[k] = slot]} :
       IF \A m \in Batch(r.urls, r.i) : r.slots[m].status # "pending"
       THEN BatchSettled(id, r)
       ELSE /\ run' = [run EXCEPT ![id] = r]
            /\ UNCHANGED bulkJobs
  /\ UNCHANGED <<processingJobs, uploadFiles, resultFiles, uploadReq,
                 deleteReq, budget, consoleLog,
                 tempFiles, httpResponse, call>>

\* lines 149-178: the page was fetched and analysed before the timer fired
UrlAnalysed(id, k) ==
  LET url == run[id].urls[k] IN
  /\ Settle(id, k, Fulfilled,
            [jobId |-> id, url |-> url, analysisResult |-> SampleAnalysis(url)])
  /\ UNCHANGED fetches

\* lines 142-147: Promise.race does not stop the loser.  When the timer
\* wins, the axios request of performSeoAnalysis goes on until it settles.
AbandonedFetches(n, errorMessage) ==
  IF errorMessage = TimeoutMessage THEN n + 1 ELSE n

\* lines 180-190: the fetch failed or the timer fired first
UrlFailed(id, k, errorMessage) ==
  LET url == run[id].urls[k] IN
  /\ errorMessage \in FailureMessages(url)
  /\ Settle(id, k, Rejected(ProcessUrlError(url, errorMessage)),
            [jobId |-> id, url |-> url, errorMessage |-> errorMessage])
  /\ fetches' = [fetches EXCEPT ![id] = AbandonedFetches(fetches[id], errorMessage)]

\* variant of FetchSettledLate: the late result is stored as well
FetchSettledLateStores(id) ==
  /\ fetches[id] > 0
  /\ fetches' = [fetches EXCEPT ![id] = fetches[id] - 1]
  /\ bulkUrlResults' = createBulkUrlResult(bulkUrlResults,
                         [jobId |-> id, url |-> run[id].urls[1],
                          analysisResult |-> SampleAnalysis(run[id].urls[1])])
  /\ UNCHANGED <<bulkJobs, processingJobs, uploadFiles,
                 resultFiles, run, uploadReq, deleteReq, consoleLog, budget,
                 tempFiles, httpResponse, call>>

\* lines 204-209: a fetch that lost the race against the timer settles; its
\* result is dropped
FetchSettledLate(id) ==
  /\ fetches[id] > 0
  /\ fetches' = [fetches EXCEPT ![id] = fetches[id] - 1]
  /\ UNCHANGED <<bulkJobs, bulkUrlResults, processingJobs, uploadFiles,
                 resultFiles, run, uploadReq, deleteReq, consoleLog, budget,
                 tempFiles, httpResponse, call>>

\* the page fetches of job id that are in flight: those of the processUrl
\* calls that have not settled, and those abandoned by their timer
FetchesInFlight(id) ==
  Cardinality({k \in 1..Len(run[id].urls) : run[id].slots[k].status = "pending"})
    + fetches[id]

\* variant of WriteDone: the id is released, the status is left as it is
WriteDoneReleasesOnly(id) ==
  /\ run[id].pc = "write"
  /\ resultFiles' = [j \in DOMAIN resultFiles \cup {id} |->
                       IF j = id THEN generateResultsCSV(run[id].results)
                       ELSE resultFiles[j]]
  /\ processingJobs' = processingJobs \ {id}
  /\ run' = [run EXCEPT ![id].pc = "idle", ![id].outcome = "completed"]
  /\ UNCHANGED <<bulkJobs, bulkUrlResults, uploadFiles, uploadReq, deleteReq, budget,
                 consoleLog, fetches, tempFiles, httpResponse, call>>

\* lines 109-119 and 130-132: the result file is written, the job completed
WriteDone(id) ==
  /\ run[id].pc = "write"
  /\ resultFiles' = [j \in DOMAIN resultFiles \cup {id} |->
                       IF j = id THEN generateResultsCSV(run[id].results)
                       ELSE resultFiles[j]]
  /\ bulkJobs' = updateBulkJob(bulkJobs, id,
                   [status |-> "completed", completedAt |-> TRUE,
                    resultFilePath |-> id])
  /\ processingJobs' = processingJobs \ {id}
  /\ run' = [run EXCEPT ![id].pc = "idle", ![id].outcome = "completed"]
  /\ UNCHANGED <<bulkUrlResults, uploadFiles, uploadReq, deleteReq, budget, consoleLog,
                 fetches, tempFiles, httpResponse, call>>

\* line 109 rejects: the result file cannot be written
WriteFailed(id) ==
  /\ run[id].pc = "write"
  /\ FailRun(id)
  /\ UNCHANGED <<bulkUrlResults, uploadFiles, resultFiles, uploadReq,
                 deleteReq, budget,
                 fetches, tempFiles, httpResponse, call>>

(***************************************************************************)
(* routes.ts: DELETE /api/bulk/jobs/:jobId by the owner of the job.        *)
(***************************************************************************)
Remove(files, id) == [j \in DOMAIN files \ {id} |-> files[j]]

\* lines 1151-1153 test the job read at line 1130
ResultCleanup(id, hasResult) ==
  IF hasResult /\ id \in DOMAIN resultFiles
  THEN [pc |-> "unlinkResult", hasResult |-> hasResult]
  ELSE [pc |-> "idle", hasResult |-> FALSE]

\* lines 1127-1148
DeleteJob(id, sessionId) ==
  /\ deleteReq[id].pc = "idle"
  /\ id \in DOMAIN bulkJobs
  /\ bulkJobs[id].userSession = sessionId
  /\ LET job == bulkJobs[id]
         hasResult == "resultFilePath" \in DOMAIN job
     IN /\ bulkJobs' = IF job.status \in {"pending", "processing"}
                       THEN updateBulkJob(bulkJobs, id, [status |-> "failed"])
                       ELSE bulkJobs
        /\ deleteReq' = [deleteReq EXCEPT ![id] =
                           IF id \in DOMAIN uploadFiles
                           THEN [pc |-> "unlinkUpload", hasResult |-> hasResult]
                           ELSE ResultCleanup(id, hasResult)]
  /\ UNCHANGED <<bulkUrlResults, processingJobs, uploadFiles, resultFiles,
                 run, uploadReq, budget, consoleLog,
                 fetches, tempFiles, httpResponse, call>>

\* lines 1148-1152: the upload is unlinked
DeleteUploadUnlinked(id) ==
  /\ deleteReq[id].pc = "unlinkUpload"
  /\ uploadFiles' = Remove(uploadFiles, id)
  /\ deleteReq' = [deleteReq EXCEPT ![id] = ResultCleanup(id, deleteReq[id].hasResult)]
  /\ UNCHANGED <<bulkJobs, bulkUrlResults, processingJobs, resultFiles, run,
                 uploadReq, budget, consoleLog,
                 fetches, tempFiles, httpResponse, call>>

\* lines 1152-1155: the result file is unlinked
DeleteResultUnlinked(id) ==
  /\ deleteReq[id].pc = "unlinkResult"
  /\ resultFiles' = Remove(resultFiles, id)
  /\ deleteReq' = [deleteReq EXCEPT ![id] = [pc |-> "idle", hasResult |-> FALSE]]
  /\ UNCHANGED <<bulkJobs, bulkUrlResults, processingJobs, uploadFiles, run,
                 uploadReq, budget, consoleLog,
                 fetches, tempFiles, httpResponse, call>>

(***************************************************************************)
(* The specification.                                                      *)
(***************************************************************************)
Next ==
  \/ \E n \in FileRows : Upload(Uploader, n)
  \/ \E id \in JobIds : UploadRenamed(id)
  \/ \E id \in JobIds : UploadRenameFailed(id)
  \/ \E id \in JobIds : ProcessJobSkipped(id)
  \/ ProcessJobUnknown(UnknownId)
  \/ \E id \in JobIds : ProcessJobAgain(id)
  \/ \E id \in JobIds : ParseDone(id)
  \/ \E id \in JobIds : ParseFailed(id)
  \/ \E id \in JobIds : \E k \in 1..Len(run[id].urls) : UrlAnalysed(id, k)
  \/ \E id \in JobIds : \E k \in 1..Len(run[id].urls) :
       \E errorMessage \in FailureMessages(run[id].urls[k]) : UrlFailed(id, k, errorMessage)
  \/ \E id \in JobIds : FetchSettledLate(id)
  \/ \E id \in JobIds : WriteDone(id)
  \/ \E id \in JobIds : WriteFailed(id)
  \/ \E id \in JobIds, sessionId \in Sessions : DeleteJob(id, sessionId)
  \/ \E id \in JobIds : DeleteUploadUnlinked(id)
  \/ \E id \in JobIds : DeleteResultUnlinked(id)

Spec == Init /\ [][Next]_vars

\* Every wait of a run ends: the read of the upload and the write of the
\* result file complete or fail, and every processUrl call settles, because
\* its fetch settles or its 30 s timer fires.
RunStep(id) ==
  \/ ParseDone(id) \/ ParseFailed(id)
  \/ WriteDone(id) \/ WriteFailed(id)
  \/ \E k \in 1..Len(run[id].urls) : UrlAnalysed(id, k)
  \/ \E k \in 1..Len(run[id].urls) :
       \E errorMessage \in FailureMessages(run[id].urls[k]) : UrlFailed(id, k, errorMessage)

\* The fair behaviours are checked with a budget of one upload of MaxRows
\* rows, or of two runs over uploads of one row.
FairInit ==
  /\ bulkJobs = <<>>
  /\ bulkUrlResults = EmptyBag
  /\ processingJobs = {}
  /\ uploadFiles = <<>>
  /\ resultFiles = <<>>
  /\ run = [id \in JobIds |-> NoRun]
  /\ uploadReq = [id \in JobIds |-> [pc |-> "none"]]
  /\ deleteReq = [id \in JobIds |-> [pc |-> "idle", hasResult |-> FALSE]]
  /\ consoleLog = {}
  /\ budget = [runs |-> 2, analyses |-> MaxAnalyses]
  /\ fetches = [id \in JobIds |-> 0]
  /\ tempFiles = {}
  /\ httpResponse = NoResponse
  /\ call = NoCall

FairSpec == FairInit /\ [][Next]_vars /\ \A id \in JobIds : WF_vars(RunStep(id))

\* lines 282-292
getProcessingJobs == processingJobs
isProcessing(jobId) == jobId \in processingJobs

(***************************************************************************)
(* routes.ts: the scoring engine, analyzeSeoTags.  A page is what the      *)
(* selectors of lines 524, 574, 624, 647-649 and 720-723 read from it: the *)
(* text of <title> and the content attributes, "" where the tag is absent. *)
(***************************************************************************)
\* lines 500-504, for text without a script block: the tags are removed
RECURSIVE StripTags(_)
StripTags(text) ==
  IF \E k \in 1..Len(text) : SubSeq(text, k, k) = "<" /\
       \E m \in (k + 1)..Len(text) : SubSeq(text, m, m) = ">"
  THEN LET k == CHOOSE k \in 1..Len(text) :
                  /\ SubSeq(text, k, k) = "<"
                  /\ \E m \in (k + 1)..Len(text) : SubSeq(text, m, m) = ">"
                  /\ \A j \in 1..(k - 1) :
                       ~(SubSeq(text, j, j) = "<" /\
                         \E m \in (j + 1)..Len(text) : SubSeq(text, m, m) = ">")
           m == CHOOSE m \in (k + 1)..Len(text) :
                  /\ SubSeq(text, m, m) = ">"
                  /\ \A j \in (k + 1)..(m - 1) : SubSeq(text, j, j) # ">"
       IN StripTags(SubSeq(text, 1, k - 1) \o SubSeq(text, m + 1, Len(text)))
  ELSE text

sanitizeText(text) == Trim(StripTags(text))

\* the state of analyzeSeoTags: lines 520-522
NoFindings == [tags |-> <<>>, breakdown |-> <<>>, score |-> 100]

\* variant of Good: a check that finds nothing wrong is listed in the
\* breakdown as well, with deduction 0
GoodIsListed(acc, tag, content) ==
  [acc EXCEPT !.tags = Append(acc.tags, SeoTag(tag, content, "good", 0)),
              !.breakdown = Append(acc.breakdown,
                                   [tag |-> tag, issue |-> "", deduction |-> 0])]

\* a check that finds nothing wrong pushes its tag
Good(acc, tag, content) ==
  [acc EXCEPT !.tags = Append(acc.tags, SeoTag(tag, content, "good", 0))]

\* variant of Bad: every deduction is taken three times over
BadCostsThreefold(acc, tag, status, content, tagDeduction, category, issue, entryDeduction, scoreDeduction) ==
  [tags |-> Append(acc.tags, SeoTag(tag, content, status, 3 * tagDeduction)),
   breakdown |-> Append(acc.breakdown,
                        [tag |-> category, issue |-> issue, deduction |-> 3 * entryDeduction]),
   score |-> acc.score - 3 * scoreDeduction]

\* a check that finds something wrong pushes its tag and its breakdown
\* entry and lowers the score; the code writes the three numbers apart
Bad(acc, tag, status, content, tagDeduction, category, issue, entryDeduction, scoreDeduction) ==
  [tags |-> Append(acc.tags, SeoTag(tag, content, status, tagDeduction)),
   breakdown |-> Append(acc.breakdown,
                        [tag |-> category, issue |-> issue, deduction |-> entryDeduction]),
   score |-> acc.score - scoreDeduction]

\* variant of TitleCheck: a title of 30 characters counts as too short
TitleCheckThirtyIsShort(acc, text) ==
  LET title == Trim(text) IN
  IF title = "" THEN Bad(acc, "Title", "missing", "-", 25, "Title", "Missing title tag", 25, 25)
  ELSE IF Len(title) <= 30
  THEN Bad(acc, "Title", "warning", sanitizeText(title), 10, "Title", "Title too short", 10, 10)
  ELSE IF Len(title) > 60
  THEN Bad(acc, "Title", "warning", sanitizeText(title), 10, "Title", "Title too long", 10, 10)
  ELSE Good(acc, "Title", sanitizeText(title))

\* lines 524-579
TitleCheck(acc, text) ==
  LET title == Trim(text) IN
  IF title = "" THEN Bad(acc, "Title", "missing", "-", 25, "Title", "Missing title tag", 25, 25)
  ELSE IF Len(title) < 30
  THEN Bad(acc, "Title", "warning", sanitizeText(title), 10, "Title", "Title too short", 10, 10)
  ELSE IF Len(title) > 60
  THEN Bad(acc, "Title", "warning", sanitizeText(title), 10, "Title", "Title too long", 10, 10)
  ELSE Good(acc, "Title", sanitizeText(title))

\* variant of DescriptionCheck: a missing description costs 10
DescriptionCheckMissingCostsTen(acc, text) ==
  LET description == Trim(text) IN
  IF description = ""
  THEN Bad(acc, "Meta Description", "missing", "-", 10,
           "Meta Description", "Missing meta description", 10, 10)
  ELSE IF Len(description) < 120
  THEN Bad(acc, "Meta Description", "warning", sanitizeText(description), 10,
           "Meta Description", "Description too short", 10, 10)
  ELSE IF Len(description) > 160
  THEN Bad(acc, "Meta Description", "warning", sanitizeText(description), 10,
           "Meta Description", "Description too long", 10, 10)
  ELSE Good(acc, "Meta Description", sanitizeText(description))

\* lines 581-636
DescriptionCheck(acc, text) ==
  LET description == Trim(text) IN
  IF description = ""
  THEN Bad(acc, "Meta Description", "missing", "-", 20,
           "Meta Description", "Missing meta description", 20, 20)
  ELSE IF Len(description) < 120
  THEN Bad(acc, "Meta Description", "warning", sanitizeText(description), 10,
           "Meta Description", "Description too short", 10, 10)
  ELSE IF Len(description) > 160
  THEN Bad(acc, "Meta Description", "warning", sanitizeText(description), 10,
           "Meta Description", "Description too long", 10, 10)
  ELSE Good(acc, "Meta Description", sanitizeText(description))

\* variant of PresenceCheck: a missing tag is reported but costs nothing
PresenceCheckFree(acc, text, content, tag, category, issue) ==
  IF Trim(text) = "" THEN Bad(acc, tag, "missing", "-", 5, category, issue, 5, 0)
  ELSE Good(acc, tag, content)

\* the eight checks for presence; the content of the two image tags is
\* pushed as it was read, that of the others through sanitizeText
PresenceCheck(acc, text, content, tag, category, issue) ==
  IF Trim(text) = "" THEN Bad(acc, tag, "missing", "-", 5, category, issue, 5, 5)
  ELSE Good(acc, tag, content)

Max(a, b) == IF a > b THEN a ELSE b

\* lines 515-848
analyzeSeoTags(page) ==
  LET a1 == TitleCheck(NoFindings, page.title)
      a2 == DescriptionCheck(a1, page.description)
      a3 == PresenceCheck(a2, page.robots, sanitizeText(Trim(page.robots)),
                          "Meta Robots", "Meta Robots", "Missing robots tag")
      a4 == PresenceCheck(a3, page.ogTitle, sanitizeText(Trim(page.ogTitle)),
                          "OG Title", "Open Graph", "Missing OG title")
      a5 == PresenceCheck(a4, page.ogDescription, sanitizeText(Trim(page.ogDescription)),
                          "OG Description", "Open Graph",
                          "Missing OG description")
      a6 == PresenceCheck(a5, page.ogImage, Trim(page.ogImage),
                          "OG Image", "Open Graph", "Missing OG image")
      a7 == PresenceCheck(a6, page.twitterCard, sanitizeText(Trim(page.twitterCard)),
                          "Twitter Card", "Twitter Card",
                          "Missing card type")
      a8 == PresenceCheck(a7, page.twitterTitle, sanitizeText(Trim(page.twitterTitle)),
                          "Twitter Title", "Twitter Card",
                          "Missing Twitter title")
      a9 == PresenceCheck(a8, page.twitterDescription, sanitizeText(Trim(page.twitterDescription)),
                          "Twitter Description", "Twitter Card",
                          "Missing Twitter description")
      a10 == PresenceCheck(a9, page.twitterImage, Trim(page.twitterImage),
                          "Twitter Image", "Twitter Card",
                           "Missing Twitter image")
  IN [tags |-> a10.tags, breakdown |-> a10.breakdown, score |-> Max(0, a10.score)]

(***************************************************************************)
(* The scoring engine on its own: analyzeSeoTags is applied to one page.   *)
(***************************************************************************)
RECURSIVE Text(_)
Text(n) ==
  IF n = 0 THEN ""
  ELSE IF n % 2 = 1 THEN Text(n - 1) \o "a"
  ELSE Text(n \div 2) \o Text(n \div 2)

Titles == {"", "  ", "Bad", Text(29), Text(30), " " \o Text(60) \o " ", Text(61),
           "<b>" \o Text(30) \o "</b>"}
Descriptions == {"", Text(119), Text(120), Text(160), Text(161)}
Contents == {"", "summary"}

Pages ==
  [title : Titles, description : Descriptions, robots : Contents,
   ogTitle : Contents, ogDescription : Contents, ogImage : Contents,
   twitterCard : Contents, twitterTitle : Contents,
   twitterDescription : Contents, twitterImage : Contents]

\* nothing has been uploaded and no request has been made
Untouched ==
  /\ bulkJobs = <<>>
  /\ bulkUrlResults = EmptyBag
  /\ processingJobs = {}
  /\ uploadFiles = <<>>
  /\ resultFiles = <<>>
  /\ run = [id \in JobIds |-> NoRun]
  /\ uploadReq = [id \in JobIds |-> [pc |-> "none"]]
  /\ deleteReq = [id \in JobIds |-> [pc |-> "idle", hasResult |-> FALSE]]
  /\ consoleLog = {}
  /\ budget = [runs |-> MaxRuns, analyses |-> MaxAnalyses]
  /\ fetches = [id \in JobIds |-> 0]
  /\ tempFiles = {}
  /\ httpResponse = NoResponse

pipeline == <<bulkJobs, bulkUrlResults, processingJobs, uploadFiles, resultFiles,
              run, uploadReq, deleteReq, consoleLog, budget, fetches, tempFiles,
              httpResponse>>

ScoreInit ==
  /\ Untouched
  /\ call \in {[function |-> "analyzeSeoTags", page |-> page, done |-> FALSE,
                result |-> NoFindings] : page \in Pages}

AnalyzePage ==
  /\ call.function = "analyzeSeoTags"
  /\ ~call.done
  /\ call' = [call EXCEPT !.done = TRUE, !.result = analyzeSeoTags(call.page)]
  /\ UNCHANGED pipeline

ScoreNext == AnalyzePage

ScoreSpec == ScoreInit /\ [][ScoreNext]_vars

(***************************************************************************)
(* The two callers of the scoring engine: performSeoAnalysis of the bulk   *)
(* runner and the handler of POST /api/analyze, applied to one fetched     *)
(* page, and the row processUrl builds from the runner's analysis.         *)
(***************************************************************************)
\* a || b on strings: the empty string is falsy
Or(a, b) == IF a # "" THEN a ELSE b

\* the index of the first occurrence of the character c in s at or after
\* position from, Len(s) + 1 if there is none
IndexOf(s, c, from) ==
  IF \E k \in from..Len(s) : SubSeq(s, k, k) = c
  THEN CHOOSE k \in from..Len(s) :
         /\ SubSeq(s, k, k) = c
         /\ \A m \in from..(k - 1) : SubSeq(s, m, m) # c
  ELSE Len(s) + 1

\* new URL(url).hostname of an absolute http(s) URL without port or userinfo
hostname(url) ==
  LET start == IF StartsWith(url, "https://") THEN 9 ELSE 8
  IN SubSeq(url, start, IndexOf(url, "/", start) - 1)

\* routes.ts lines 506-513; the URLs of the model all parse
extractDomain(url) == hostname(url)

\* lines 201 of bulk-processor.ts and 871 of routes.ts
urlToAnalyze(targetUrl) ==
  IF StartsWith(targetUrl, "http") THEN targetUrl ELSE "https://" \o targetUrl

\* bulk-processor.ts lines 194-255, for the page the fetch returned
performSeoAnalysis(page, targetUrl) ==
  LET analysis == analyzeSeoTags(page)
      title == Or(Trim(page.title), "")
      description == Or(Trim(page.description), "")
      domain == hostname(urlToAnalyze(targetUrl))
  IN [url |-> targetUrl,
      score |-> analysis.score,
      breakdown |-> analysis.breakdown,
      tags |-> analysis.tags,
      previews |->
        [google |-> [title |-> sanitizeText(title),
                     description |-> sanitizeText(description),
                     url |-> targetUrl],
         facebook |-> [title |-> sanitizeText(Or(page.ogTitle, title)),
                       description |-> sanitizeText(Or(page.ogDescription, description)),
                       image |-> Or(page.ogImage, ""),
                       domain |-> domain],
         twitter |-> [title |-> sanitizeText(Or(page.twitterTitle, title)),
                      description |-> sanitizeText(Or(page.twitterDescription, description)),
                      image |-> Or(page.twitterImage, ""),
                      card |-> Or(page.twitterCard, "summary"),
                      domain |-> domain],
         linkedin |-> [title |-> sanitizeText(Or(page.ogTitle, title)),
                       description |-> sanitizeText(Or(page.ogDescription, description)),
                       image |-> Or(page.ogImage, ""),
                       domain |-> domain]]]

\* routes.ts lines 867-932: the body POST /api/analyze answers with, for
\* the page the fetch returned
AnalyzeRoute(page, targetUrl) ==
  LET analysis == analyzeSeoTags(page)
      domain == extractDomain(urlToAnalyze(targetUrl))
      title == Or(Trim(page.title), "")
      description == Or(Trim(page.description), "")
      ogTitle == Or(Trim(page.ogTitle), title)
      ogDescription == Or(Trim(page.ogDescription), description)
      ogImage == Or(Trim(page.ogImage), "")
      twitterTitle == Or(Trim(page.twitterTitle), ogTitle)
      twitterDescription == Or(Trim(page.twitterDescription), ogDescription)
      twitterImage == Or(Trim(page.twitterImage), ogImage)
      twitterCard == Or(Trim(page.twitterCard), "summary")
  IN [url |-> targetUrl,
      score |-> analysis.score,
      breakdown |-> analysis.breakdown,
      tags |-> analysis.tags,
      previews |->
        [google |-> [title |-> sanitizeText(title),
                     description |-> sanitizeText(description),
                     url |-> targetUrl],
         facebook |-> [title |-> sanitizeText(ogTitle),
                       description |-> sanitizeText(ogDescription),
                       image |-> ogImage,
                       domain |-> domain],
         twitter |-> [title |-> sanitizeText(twitterTitle),
                      description |-> sanitizeText(twitterDescription),
                      image |-> twitterImage,
                      card |-> twitterCard,
                      domain |-> domain],
         linkedin |-> [title |-> sanitizeText(ogTitle),
                       description |-> sanitizeText(ogDescription),
                       image |-> ogImage,
                       domain |-> domain]]]

\* the URLs a page is asked for: with and without protocol
PageUrls == {"https://a.example/x", "a.example"}

PageInit ==
  /\ Untouched
  /\ call \in {[function |-> f, page |-> page, url |-> url, done |-> FALSE,
                result |-> <<>>] :
                 f \in {"performSeoAnalysis", "POST /api/analyze", "processUrl"},
                 page \in Pages, url \in PageUrls}

\* the bulk runner analyses the fetched page
BulkAnalysis ==
  /\ call.function = "performSeoAnalysis"
  /\ ~call.done
  /\ call' = [call EXCEPT !.done = TRUE,
                          !.result = performSeoAnalysis(call.page, call.url)]
  /\ UNCHANGED pipeline

\* POST /api/analyze answers for the fetched page
SingleAnalysis ==
  /\ call.function = "POST /api/analyze"
  /\ ~call.done
  /\ call' = [call EXCEPT !.done = TRUE,
                          !.result = AnalyzeRoute(call.page, call.url)]
  /\ UNCHANGED pipeline

\* processUrl builds the row of the fetched page
BulkRow ==
  /\ call.function = "processUrl"
  /\ ~call.done
  /\ call' = [call EXCEPT !.done = TRUE,
                          !.result = CsvResult(performSeoAnalysis(call.page, call.url))]
  /\ UNCHANGED pipeline

PageNext == BulkAnalysis \/ SingleAnalysis \/ BulkRow

PageSpec == PageInit /\ [][PageNext]_vars

(***************************************************************************)
(* The CSV helpers on their own: validateCSVFile or parseCSVUrls is        *)
(* applied to one file.                                                    *)
(***************************************************************************)
\* a file with one column and n rows, each with a URL of its own
ListFile(n) ==
  CsvFile(<<"url">>, [k \in 1..n |-> <<"site" \o ToString(k) \o ".com">>])

\* the same content in a file of the given size
OfSize(file, size) == [file EXCEPT !.size = size]

FilesToValidate ==
  {ListFile(n) : n \in {0, 1, 2, 999, 1000, 1001}}
    \cup {OfSize(ListFile(2), maxSizeBytes), OfSize(ListFile(2), maxSizeBytes + 1),
          OfSize(ListFile(0), 2 * maxSizeBytes),
          CsvFile(<<"name", "comment">>, <<<<"first", "plain">>, <<"second", "">>>>),
          CsvFile(<<"name", "url">>, <<<<"first", "a.com">>, <<"second">>>>),
          CsvFile(<<"name", "url">>, <<<<"first", "a.com", "b.com">>>>)}

Headers == {<<"name", "url">>, <<"URL", "url">>, <<"site", "link">>,
            <<"name", "homepage">>, <<" url ", "name">>, <<"name", "2024">>}
Cells == {"", "https://a.com", " b.org ", "www.c.net", "plain", "v1.2"}
Rows == {<<first, second>> : first \in Cells, second \in Cells}

FilesToParse ==
  {CsvFile(header, <<row>>) : header \in Headers, row \in Rows}
    \cup {CsvFile(header, <<row, <<"", " b.org ">>, row>>) :
            header \in Headers, row \in Rows}
    \cup {CsvFile(header, <<>>) : header \in Headers}

\* the rows handed to generateResultsCSV: rows as processJob builds them, and
\* the same rows with an issue list and its summary
WithBreakdown(result, scoreBreakdown, breakdownSummary) ==
  [f \in DOMAIN result \cup {"scoreBreakdown", "breakdownSummary"} |->
     IF f = "scoreBreakdown" THEN scoreBreakdown
     ELSE IF f = "breakdownSummary" THEN breakdownSummary
     ELSE result[f]]

SampleRows ==
  {CsvResult(SampleAnalysis("https://site1.com")),
   ErrorResult("https://site2.org", "Failed to fetch page"),
   WithBreakdown(CsvResult(SampleAnalysis("https://site1.com")), <<>>, "No issues found"),
   WithBreakdown(ErrorResult("https://site2.org", "Failed to fetch page"), <<>>, ""),
   WithBreakdown(CsvResult(SampleAnalysis("http://site3.org")),
     <<[tag |-> "Title", issue |-> "Title too short", deduction |-> 10],
       [tag |-> "Meta Description", issue |-> "Description too short", deduction |-> 5]>>,
     "Title: Title too short (-10pts); Meta Description: Description too short (-5pts)")}

RowsToWrite ==
  {<<>>} \cup {<<row>> : row \in SampleRows}
         \cup {<<first, second>> : first \in SampleRows, second \in SampleRows}

CsvInit ==
  /\ Untouched
  /\ call \in {[function |-> "validateCSVFile", file |-> file, done |-> FALSE,
                result |-> <<>>] : file \in FilesToValidate}
              \cup {[function |-> "parseCSVUrls", file |-> file, done |-> FALSE,
                     result |-> <<>>] : file \in FilesToParse}
              \cup {[function |-> "generateResultsCSV", results |-> results,
                     done |-> FALSE, result |-> <<>>] : results \in RowsToWrite}

ValidateFile ==
  /\ call.function = "validateCSVFile"
  /\ ~call.done
  /\ call' = [call EXCEPT !.done = TRUE, !.result = validateCSVFile(call.file)]
  /\ UNCHANGED pipeline

ParseFile ==
  /\ call.function = "parseCSVUrls"
  /\ ~call.done
  /\ ~ParseRejects(call.file)
  /\ call' = [call EXCEPT !.done = TRUE, !.result = parseCSVUrls(call.file)]
  /\ UNCHANGED pipeline

GenerateCsv ==
  /\ call.function = "generateResultsCSV"
  /\ ~call.done
  /\ call' = [call EXCEPT !.done = TRUE, !.result = generateResultsCSV(call.results)]
  /\ UNCHANGED pipeline

CsvNext == ValidateFile \/ ParseFile \/ GenerateCsv

CsvSpec == CsvInit /\ [][CsvNext]_vars

(***************************************************************************)
(* routes.ts: the requests that do nothing but answer.  POST               *)
(* /api/bulk/upload refused with 400, GET /api/bulk/download/:jobId, and   *)
(* DELETE /api/bulk/jobs/:jobId refused with 404 or 403.                   *)
(***************************************************************************)
UpperCase == "ABCDEFGHIJKLMNOPQRSTUVWXYZ"
LowerCase == "abcdefghijklmnopqrstuvwxyz"

RECURSIVE toLowerCase(_)
toLowerCase(s) ==
  IF s = "" THEN ""
  ELSE LET c == SubSeq(s, 1, 1)
           at == {k \in 1..Len(UpperCase) : SubSeq(UpperCase, k, k) = c}
       IN (IF at = {} THEN c
           ELSE LET k == CHOOSE k \in at : TRUE IN SubSeq(LowerCase, k, k))
          \o toLowerCase(SubSeq(s, 2, Len(s)))

\* multer, lines 467-482
fileSize == 10 * 1024 * 1024

fileFilter(file) ==
  file.mimetype = "text/csv" \/ EndsWith(toLowerCase(file.originalname), ".csv")

\* upload.single('file'): what multer hands on.  A file the filter refuses is
\* not stored; a file over the limit is stored up to the limit and removed
\* again before the error is handed on.
multer(request) ==
  IF ~request.attached THEN [err |-> "", file |-> FALSE]
  ELSE IF ~fileFilter(request.file)
  THEN [err |-> "Only CSV files are allowed", file |-> FALSE]
  ELSE IF request.file.content.size > fileSize
  THEN [err |-> "LIMIT_FILE_SIZE", file |-> FALSE]
  ELSE [err |-> "", file |-> TRUE]

\* lines 485-498
handleMulterError(err) ==
  IF err = "LIMIT_FILE_SIZE"
  THEN [status |-> 400, error |-> "File size too large. Maximum allowed size is 10MB."]
  ELSE [status |-> 400,
        error |-> "Only CSV files are allowed. Please upload a valid CSV file."]

\* the uploads that are sent
CsvUpload(originalname, mimetype, content) ==
  [attached |-> TRUE,
   file |-> [originalname |-> originalname, mimetype |-> mimetype, content |-> content]]

UploadRequests ==
  {[attached |-> FALSE],
   CsvUpload("notes.txt", "text/plain", ListFile(1)),
   CsvUpload("LIST.CSV", "application/octet-stream", ListFile(0)),
   CsvUpload("urls.csv", "text/csv", OfSize(ListFile(2), maxSizeBytes + 1)),
   CsvUpload("urls.csv", "text/csv", ListFile(1001)),
   CsvUpload("urls.csv", "text/csv",
             CsvFile(<<"name", "comment">>, <<<<"first", "plain">>>>)),
   CsvUpload("urls.csv", "text/csv",
             CsvFile(<<"name", "url">>, <<<<"first", "a.com">>, <<"second">>>>)),
   CsvUpload("urls.csv", "text/csv", ListFile(1))}

\* lines 956-974: the answer to an upload up to the validation, and whether
\* the handler has a stored file to clean up
UploadVerdict(request) ==
  LET passed == multer(request) IN
  IF passed.err # ""
  THEN [answer |-> handleMulterError(passed.err), stored |-> FALSE]
  ELSE IF ~passed.file
  THEN [answer |-> [status |-> 400,
                    error |-> "No file uploaded. Please select a CSV file."],
        stored |-> FALSE]
  ELSE LET validation == validateCSVFile(request.file.content) IN
       IF ~validation.valid
       THEN [answer |-> [status |-> 400, error |-> validation.error], stored |-> TRUE]
       ELSE [answer |-> [status |-> 200, error |-> ""], stored |-> TRUE]

UploadVerdicts == [request \in UploadRequests |-> UploadVerdict(request)]

\* variant: the refused upload has created its job before it is refused
UploadRejectedAfterCreate(request) ==
  /\ httpResponse = NoResponse
  /\ UploadVerdicts[request].answer.status = 400
  /\ httpResponse' = [route |-> "POST /api/bulk/upload",
                      status |-> 400, error |-> UploadVerdicts[request].answer.error]
  /\ bulkJobs' = IF Cardinality(DOMAIN bulkJobs) < MaxJobs
                 THEN createBulkJob(bulkJobs, Cardinality(DOMAIN bulkJobs) + 1,
                        [userSession |-> Uploader, filename |-> "urls.csv",
                         totalUrls |-> 0, processedUrls |-> 0, status |-> "pending"])
                 ELSE bulkJobs
  /\ UNCHANGED <<bulkUrlResults, processingJobs, uploadFiles, resultFiles, run,
                 uploadReq, deleteReq, consoleLog, budget, fetches, tempFiles, call>>

\* lines 956-974, every path that answers 400.  The stored file of the
\* request has the name multer gave it, here the next job id.
UploadRejected(request) ==
  /\ httpResponse = NoResponse
  /\ UploadVerdicts[request].answer.status = 400
  /\ httpResponse' = [route |-> "POST /api/bulk/upload",
                      status |-> 400, error |-> UploadVerdicts[request].answer.error]
  /\ tempFiles' = IF UploadVerdicts[request].stored
                  THEN cleanupFile(tempFiles \cup {Cardinality(DOMAIN bulkJobs) + 1},
                                   Cardinality(DOMAIN bulkJobs) + 1)
                  ELSE tempFiles
  /\ UNCHANGED <<bulkJobs, bulkUrlResults, processingJobs, uploadFiles, resultFiles,
                 run, uploadReq, deleteReq, consoleLog, budget, fetches, call>>

\* lines 1056-1083: the status of the answer to a download
DownloadStatusIgnoresFile(jobId) ==
  IF jobId \notin DOMAIN bulkJobs THEN [status |-> 404, error |-> "Job not found"]
  ELSE IF bulkJobs[jobId].status # "completed"
  THEN [status |-> 400, error |-> "Job is not completed yet"]
  ELSE [status |-> 200, error |-> ""]

DownloadStatus(jobId) ==
  IF jobId \notin DOMAIN bulkJobs THEN [status |-> 404, error |-> "Job not found"]
  ELSE IF bulkJobs[jobId].status # "completed"
  THEN [status |-> 400, error |-> "Job is not completed yet"]
  ELSE IF "resultFilePath" \notin DOMAIN bulkJobs[jobId] \/ jobId \notin DOMAIN resultFiles
  THEN [status |-> 404, error |-> "Result file not found"]
  ELSE [status |-> 200, error |-> ""]

\* lines 1054-1091
Download(jobId) ==
  /\ httpResponse = NoResponse
  /\ httpResponse' = [route |-> "GET /api/bulk/download", jobId |-> jobId,
                      status |-> DownloadStatus(jobId).status,
                      error |-> DownloadStatus(jobId).error]
  /\ UNCHANGED <<bulkJobs, bulkUrlResults, processingJobs, uploadFiles, resultFiles,
                 run, uploadReq, deleteReq, consoleLog, budget, fetches, tempFiles,
                 call>>

\* variant: the refused request has already marked the job failed
DeleteDeniedCancels(jobId, sessionId) ==
  /\ httpResponse = NoResponse
  /\ IF jobId \in DOMAIN bulkJobs THEN bulkJobs[jobId].userSession # sessionId ELSE TRUE
  /\ httpResponse' = [route |-> "DELETE /api/bulk/jobs", jobId |-> jobId,
                      sessionId |-> sessionId,
                      status |-> IF jobId \notin DOMAIN bulkJobs THEN 404 ELSE 403]
  /\ bulkJobs' = IF jobId \in DOMAIN bulkJobs
                 THEN updateBulkJob(bulkJobs, jobId, [status |-> "failed"])
                 ELSE bulkJobs
  /\ UNCHANGED <<bulkUrlResults, processingJobs, uploadFiles, resultFiles,
                 run, uploadReq, deleteReq, consoleLog, budget, fetches, tempFiles,
                 call>>

\* lines 1127-1138: the job is unknown, or the caller is not its owner
DeleteDenied(jobId, sessionId) ==
  /\ httpResponse = NoResponse
  /\ IF jobId \in DOMAIN bulkJobs THEN bulkJobs[jobId].userSession # sessionId ELSE TRUE
  /\ httpResponse' = [route |-> "DELETE /api/bulk/jobs", jobId |-> jobId,
                      sessionId |-> sessionId,
                      status |-> IF jobId \notin DOMAIN bulkJobs THEN 404 ELSE 403]
  /\ UNCHANGED <<bulkJobs, bulkUrlResults, processingJobs, uploadFiles, resultFiles,
                 run, uploadReq, deleteReq, consoleLog, budget, fetches, tempFiles,
                 call>>

RouteNext ==
  \/ Next
  \/ \E request \in UploadRequests : UploadRejected(request)
  \/ \E jobId \in JobIds \cup {UnknownId} : Download(jobId)
  \/ \E jobId \in JobIds \cup {UnknownId}, sessionId \in Sessions :
       DeleteDenied(jobId, sessionId)

\* The requests are checked against runs over uploads of one row.
RouteInit ==
  /\ bulkJobs = <<>>
  /\ bulkUrlResults = EmptyBag
  /\ processingJobs = {}
  /\ uploadFiles = <<>>
  /\ resultFiles = <<>>
  /\ run = [id \in JobIds |-> NoRun]
  /\ uploadReq = [id \in JobIds |-> [pc |-> "none"]]
  /\ deleteReq = [id \in JobIds |-> [pc |-> "idle", hasResult |-> FALSE]]
  /\ consoleLog = {}
  /\ budget = [runs |-> 2, analyses |-> 2]
  /\ fetches = [id \in JobIds |-> 0]
  /\ tempFiles = {}
  /\ httpResponse = NoResponse
  /\ call = NoCall

RouteSpec == RouteInit /\ [][RouteNext]_vars

(***************************************************************************)
(* storage.ts on its own: updateBulkJob is applied to a store.             *)
(***************************************************************************)
StoredJobs ==
  {[userSession |-> Uploader, filename |-> "urls.csv", totalUrls |-> 2,
    processedUrls |-> processedUrls, status |-> status] :
     processedUrls \in 0..2, status \in {"pending", "processing", "failed"}}
    \cup {[userSession |-> Uploader, filename |-> "urls.csv", totalUrls |-> 2,
           processedUrls |-> 2, status |-> "completed", completedAt |-> TRUE,
           resultFilePath |-> 1]}

Stores ==
  {<<>>} \cup {<<job>> : job \in StoredJobs}
         \cup {<<first, second>> : first \in StoredJobs, second \in StoredJobs}

\* the updates the runner and the routes hand over (bulk-processor.ts lines
\* 42-45, 95-97, 112-116, 125-128; routes.ts line 1142), and none
Updates ==
  {[status |-> "processing", processedUrls |-> 0],
   [processedUrls |-> 1],
   [status |-> "completed", completedAt |-> TRUE, resultFilePath |-> 2],
   [status |-> "failed", completedAt |-> TRUE],
   [status |-> "failed"],
   [x \in {} |-> TRUE]}

StoreInit ==
  /\ bulkJobs \in Stores
  /\ bulkUrlResults = SetToBag({[jobId |-> 1, url |-> "https://site1.com",
                                 errorMessage |-> TimeoutMessage]})
  /\ processingJobs = {}
  /\ uploadFiles = <<>>
  /\ resultFiles = <<>>
  /\ run = [id \in JobIds |-> NoRun]
  /\ uploadReq = [id \in JobIds |-> [pc |-> "none"]]
  /\ deleteReq = [id \in JobIds |-> [pc |-> "idle", hasResult |-> FALSE]]
  /\ consoleLog = {}
  /\ budget = [runs |-> MaxRuns, analyses |-> MaxAnalyses]
  /\ fetches = [id \in JobIds |-> 0]
  /\ tempFiles = {}
  /\ httpResponse = NoResponse
  /\ call \in {[function |-> "updateBulkJob", jobId |-> jobId, updates |-> updates,
                done |-> FALSE, result |-> [undefined |-> TRUE]] :
                 jobId \in 1..3, updates \in Updates}

UpdateJob ==
  /\ call.function = "updateBulkJob"
  /\ ~call.done
  /\ bulkJobs' = updateBulkJob(bulkJobs, call.jobId, call.updates)
  /\ call' = [call EXCEPT !.done = TRUE,
                          !.result = UpdatedJob(bulkJobs, call.jobId, call.updates)]
  /\ UNCHANGED <<bulkUrlResults, processingJobs, uploadFiles, resultFiles, run,
                 uploadReq, deleteReq, consoleLog, budget, fetches, tempFiles,
                 httpResponse>>

StoreNext == UpdateJob

StoreSpec == StoreInit /\ [][StoreNext]_vars

(***************************************************************************)
(* Properties.                                                             *)
(***************************************************************************)
RunEnded(id) == run[id].pc = "idle" /\ run[id].outcome # "none"

StatusRank(status) ==
  CASE status = "pending" -> 0
    [] status = "processing" -> 1
    [] OTHER -> 2

\* C1: a job's status only moves Pending -> Processing -> Completed or
\* Failed: no step moves it backward, and no step changes it once it is
\* Completed or Failed.
C1_StatusOnlyMovesForward ==
  [][\A id \in DOMAIN bulkJobs :
       LET old == bulkJobs[id].status
           new == bulkJobs'[id].status
       IN old # new => /\ StatusRank(old) < StatusRank(new)
                       /\ old \notin {"completed", "failed"}]_vars

\* C2: a processJob call for a job id that is in the active set starts no
\* run: the step that logs the skipped call changes nothing in the store,
\* the files or the run in flight, and no run is started for an active id.
C2_SecondCallIsNoOp ==
  [][\A id \in processingJobs :
       /\ run'[id].n = run[id].n
       /\ AlreadyProcessedLine(id) \in consoleLog' \ consoleLog
            => UNCHANGED <<bulkJobs, bulkUrlResults, processingJobs,
                           uploadFiles, resultFiles, run>>]_vars

C2_Witness ==
  \E id \in processingJobs :
    /\ AlreadyProcessedLine(id) \in consoleLog
    /\ run[id].pc = "batch"

RowOf(r, k) ==
  IF r.slots[k].status = "fulfilled"
  THEN CsvResult(SampleAnalysis(r.urls[k]))
  ELSE ErrorResult(r.urls[k], r.slots[k].message)

\* C4: for a run that ended Completed, the rows handed to the result writer
\* are exactly totalUrls rows, row k being the row of the k-th URL of the
\* input list whatever order the calls settled in; the file written has
\* totalUrls + 1 lines.
C4_RowsFollowInputOrder ==
  \A id \in DOMAIN bulkJobs :
    (RunEnded(id) /\ run[id].outcome = "completed") =>
      /\ Len(run[id].results) = bulkJobs[id].totalUrls
      /\ run[id].urls = ReadUrls(uploadReq[id].file)
      /\ \A k \in 1..Len(run[id].results) :
           /\ run[id].results[k].url = run[id].urls[k]
           /\ run[id].results[k] = RowOf(run[id], k)
      /\ id \in DOMAIN resultFiles =>
           /\ Len(resultFiles[id]) = bulkJobs[id].totalUrls + 1
           /\ resultFiles[id][1] = columns
           /\ \A k \in 1..Len(run[id].results) :
                resultFiles[id][k + 1] = CsvLine(RowOf(run[id], k))

C4_Witness ==
  \E id \in DOMAIN bulkJobs :
    /\ RunEnded(id) /\ run[id].outcome = "completed"
    /\ bulkJobs[id].totalUrls > maxConcurrentUrls
    /\ run[id].slots[1].status = "rejected"
    /\ run[id].slots[2].status = "fulfilled"
    /\ id \in DOMAIN resultFiles

\* a placeholder row: score 0, every analysis field empty, an error message
IsPlaceholder(row, url) ==
  /\ row.url = url
  /\ row.seoScore = 0
  /\ row.titleLength = 0 /\ row.metaDescriptionLength = 0
  /\ \A f \in {"titleTag", "metaDescription", "h1Tag", "ogTitle", "ogDescription",
               "ogImage", "twitterTitle", "twitterDescription", "twitterCard",
               "robotsTag", "canonicalUrl"} : row[f] = ""
  /\ "errorMessage" \in DOMAIN row
  /\ row.errorMessage # ""

\* C5: a rejected processUrl call never ends the run: a run ends Failed only
\* where no call is in flight (the upload could not be read, or every call
\* had settled and the write failed), and a run that ended Completed has
\* one row per input URL, the row of each rejected call being a placeholder
\* with score 0, empty analysis fields and a non-empty error message.
C5_UrlFailuresBecomeRows ==
  \A id \in DOMAIN bulkJobs :
    /\ (RunEnded(id) /\ run[id].outcome = "failed") =>
         \/ \A k \in 1..Len(run[id].urls) : run[id].slots[k].status = "none"
         \/ \A k \in 1..Len(run[id].urls) :
              run[id].slots[k].status \in {"fulfilled", "rejected"}
    /\ (run[id].pc = "batch" /\ \E k \in 1..Len(run[id].urls) :
                                   run[id].slots[k].status = "rejected")
         => id \in processingJobs /\ run[id].outcome = "none"
    /\ (RunEnded(id) /\ run[id].outcome = "completed") =>
         /\ Len(run[id].results) = Len(run[id].urls)
         /\ \A k \in 1..Len(run[id].urls) :
              /\ run[id].slots[k].status \in {"fulfilled", "rejected"}
              /\ run[id].slots[k].status = "rejected"
                   => IsPlaceholder(run[id].results[k], run[id].urls[k])
              /\ run[id].slots[k].status = "fulfilled"
                   => "errorMessage" \notin DOMAIN run[id].results[k]

C5_Witness ==
  \E id \in DOMAIN bulkJobs :
    /\ RunEnded(id) /\ run[id].outcome = "completed"
    /\ bulkJobs[id].status = "completed"
    /\ Len(run[id].urls) = 4
    /\ run[id].slots[1].message = ProcessUrlError(run[id].urls[1], TimeoutMessage)
    /\ run[id].slots[3].status = "rejected"
    /\ run[id].slots[4].message = ProcessUrlError(run[id].urls[4], "")
    /\ run[id].slots[2].status = "fulfilled"

\* C6 as stated: once DELETE has marked a job Failed while its run is in
\* flight, the run's results are discarded: the status stays Failed, no
\* output-file reference is attached and no result file is written.
C6_CancelledRunIsDiscarded ==
  [][\A id \in DOMAIN bulkJobs :
       (id \in processingJobs /\ bulkJobs[id].status = "failed") =>
          /\ bulkJobs'[id].status = "failed"
          /\ "resultFilePath" \in DOMAIN bulkJobs'[id]
               => "resultFilePath" \in DOMAIN bulkJobs[id]
          /\ id \in DOMAIN resultFiles'
               => id \in DOMAIN resultFiles /\ resultFiles'[id] = resultFiles[id]]_vars

\* the step in which a run of job id ends in the catch block
RunFails(id) ==
  /\ run[id].pc # "idle"
  /\ run'[id].pc = "idle"
  /\ run'[id].outcome = "failed"

C8_ProcessedWithinTotal ==
  \A id \in DOMAIN bulkJobs :
    /\ 0 <= bulkJobs[id].processedUrls
    /\ bulkJobs[id].processedUrls <= bulkJobs[id].totalUrls
    /\ bulkJobs[id].totalUrls = Len(ReadUrls(uploadReq[id].file))

C8_Witness ==
  \E id \in DOMAIN bulkJobs :
    /\ run[id].pc = "batch"
    /\ 0 < bulkJobs[id].processedUrls
    /\ bulkJobs[id].processedUrls < bulkJobs[id].totalUrls

\* C9 as stated: no step stores a smaller processedUrls than the one stored.
C9_ProcessedNeverDecreases ==
  [][\A id \in DOMAIN bulkJobs :
       bulkJobs'[id].processedUrls >= bulkJobs[id].processedUrls]_vars

RECURSIVE SumOfDeductions(_)
SumOfDeductions(entries) ==
  IF entries = <<>> THEN 0
  ELSE Head(entries).deduction + SumOfDeductions(Tail(entries))

Scored == call.function = "analyzeSeoTags" /\ call.done

\* C12: the score returned by the scoring engine is max(0, 100 - the sum of
\* the deductions of the ten tag evaluations), which is also max(0, 100 - the
\* sum of the deductions of the breakdown); it is between 0 and 100.
C12_ScoreIsHundredLessDeductions ==
  Scored =>
    /\ Len(call.result.tags) = 10
    /\ call.result.score = Max(0, 100 - SumOfDeductions(call.result.tags))
    /\ call.result.score = Max(0, 100 - SumOfDeductions(call.result.breakdown))
    /\ call.result.score \in 0..100

C12_Witness ==
  /\ Scored
  /\ call.result.score = 60
  /\ Len(call.result.breakdown) = 5

NothingPresent(page) == \A f \in DOMAIN page : Trim(page[f]) = ""

\* C13 as stated: a page with none of the ten tags scores 0 and has a
\* breakdown of 9 entries.
C13_EmptyPageScoresZero ==
  (Scored /\ NothingPresent(call.page)) =>
    /\ call.result.score = 0
    /\ Len(call.result.breakdown) = 9

\* C13 as amended: a page with none of the ten tags scores 15, which is
\* 100 - 25 - 20 - 8 * 5, and has a breakdown of 10 entries, one per check.
C13_EmptyPageScoresFifteen ==
  (Scored /\ NothingPresent(call.page)) =>
    /\ call.result.score = 15
    /\ Len(call.result.breakdown) = 10
    /\ \A k \in 1..10 : call.result.tags[k].status = "missing"

C13_Witness ==
  /\ Scored
  /\ NothingPresent(call.page)
  /\ call.page.title = "  "
  /\ call.result.score = 15

\* the deduction of the rubric for a text whose good lengths are low..high
LengthDeduction(text, missing, low, high) ==
  IF Trim(text) = "" THEN missing
  ELSE IF Len(Trim(text)) < low \/ Len(Trim(text)) > high THEN 10
  ELSE 0

PresenceDeduction(text) == IF Trim(text) = "" THEN 5 ELSE 0

Rubric(page) ==
  <<LengthDeduction(page.title, 25, 30, 60),
    LengthDeduction(page.description, 20, 120, 160),
    PresenceDeduction(page.robots),
    PresenceDeduction(page.ogTitle),
    PresenceDeduction(page.ogDescription),
    PresenceDeduction(page.ogImage),
    PresenceDeduction(page.twitterCard),
    PresenceDeduction(page.twitterTitle),
    PresenceDeduction(page.twitterDescription),
    PresenceDeduction(page.twitterImage)>>

RECURSIVE Sum(_)
Sum(numbers) == IF numbers = <<>> THEN 0 ELSE Head(numbers) + Sum(Tail(numbers))

Validated == call.function = "validateCSVFile" /\ call.done

\* C15: validateCSVFile answers valid with urlCount, the number of URLs
\* extracted, exactly when the file is at most 10 MB and holds 1 to 1000
\* URLs; a file over 10 MB, a file without a URL, a file with more than 1000
\* URLs and a file the parser rejects are answered not valid, with a reason
\* and without urlCount.
C15_ValidationVerdict ==
  Validated =>
    LET file == call.file
        verdict == call.result
        readable == file.size <= 10 * 1024 * 1024 /\ ~ParseRejects(file)
    IN /\ verdict.valid <=> (readable /\ Len(parseCSVUrls(file)) \in 1..1000)
       /\ verdict.valid =>
            /\ verdict.urlCount = Len(parseCSVUrls(file))
            /\ "error" \notin DOMAIN verdict
       /\ ~verdict.valid =>
            /\ "urlCount" \notin DOMAIN verdict
            /\ verdict.error # ""
       /\ (readable /\ Len(parseCSVUrls(file)) = 0)
            => StartsWith(verdict.error, "No valid URLs found")
       /\ (readable /\ Len(parseCSVUrls(file)) > 1000)
            => Includes(verdict.error, "Maximum allowed is 1000 URLs")

C15_Witness ==
  /\ Validated
  /\ Len(call.file.rows) = 1001
  /\ ~call.result.valid
  /\ Includes(call.result.error, "1001")

Parsed == call.function = "parseCSVUrls" /\ call.done

\* the column of a file with the given name, the last one when several have it
Under(file, name) ==
  CHOOSE k \in 1..Len(file.header) :
    /\ Trim(file.header[k]) = name
    /\ \A m \in (k + 1)..Len(file.header) : Trim(file.header[m]) # name

LooksLikeUrl(value) ==
  Includes(value, "http") \/ Includes(value, "www.") \/ Includes(value, ".")

\* the candidate of a data row as the claim words it, "" when there is none
Candidate(file, cells) ==
  LET names == <<"url", "URL", "website", "link", "domain", "site">>
      filled == {p \in 1..Len(names) :
                   /\ \E k \in 1..Len(file.header) : Trim(file.header[k]) = names[p]
                   /\ Trim(cells[Under(file, names[p])]) # ""}
      like == {k \in 1..Len(cells) : LooksLikeUrl(cells[k])}
  IN IF filled # {}
     THEN Trim(cells[Under(file, names[CHOOSE p \in filled : \A q \in filled : p <= q])])
     ELSE IF like # {}
     THEN Trim(cells[CHOOSE k \in like : \A m \in like : k <= m])
     ELSE ""

\* C16: parseCSVUrls returns one URL for every data row that has a candidate,
\* in the order of the rows and with duplicates kept; the candidate is the
\* first non-empty trimmed value under url, URL, website, link, domain, site
\* in that priority, else the first field of the row, in the order of the
\* row, that contains "http", "www." or a dot; a candidate without http:// or
\* https:// in front is prefixed with https://.
C16_UrlPerRowWithCandidate ==
  Parsed =>
    LET file == call.file
        with == {k \in 1..Len(file.rows) : Candidate(file, file.rows[k]) # ""}
        Nth(j) == CHOOSE k \in with : Cardinality({m \in with : m <= k}) = j
    IN /\ Len(call.result) = Cardinality(with)
       /\ \A j \in 1..Cardinality(with) :
            LET candidate == Candidate(file, file.rows[Nth(j)])
            IN call.result[j] =
                 (IF StartsWith(candidate, "http://") \/ StartsWith(candidate, "https://")
                  THEN candidate ELSE "https://" \o candidate)

\* the same for files whose header has no name that is a number
C16_HoldsForNamesThatAreNoNumbers ==
  (\A k \in 1..Len(call.file.header) : ~IsArrayIndex(Trim(call.file.header[k])))
    => C16_UrlPerRowWithCandidate

Answered(route) ==
  /\ httpResponse = NoResponse
  /\ httpResponse' # NoResponse
  /\ httpResponse'.route = route

C18_DownloadOnlyWhenFileIsThere ==
  [][Answered("GET /api/bulk/download")
       => LET jobId == httpResponse'.jobId
              known == jobId \in DOMAIN bulkJobs
              completed == known /\ bulkJobs[jobId].status = "completed"
              onDisk == jobId \in DOMAIN resultFiles
          IN /\ httpResponse'.status = 200 <=> (completed /\ onDisk)
             /\ ~known => httpResponse'.status = 404
             /\ (known /\ ~completed) => httpResponse'.status = 400
             /\ (completed /\ ~onDisk) => httpResponse'.status = 404]_vars

C18_Witness ==
  /\ httpResponse # NoResponse
  /\ httpResponse.route = "GET /api/bulk/download"
  /\ httpResponse.status = 404
  /\ httpResponse.jobId \in DOMAIN bulkJobs
  /\ bulkJobs[httpResponse.jobId].status = "completed"
  /\ httpResponse.jobId \notin DOMAIN resultFiles

\* C19: a DELETE that is answered 403 or 404 leaves the job record, the
\* uploaded file and the result file as they were.
C19_RefusedDeleteChangesNothing ==
  [][(Answered("DELETE /api/bulk/jobs") /\ httpResponse'.status \in {403, 404})
       => /\ bulkJobs' = bulkJobs
          /\ uploadFiles' = uploadFiles
          /\ resultFiles' = resultFiles]_vars

C19_Witness ==
  /\ httpResponse # NoResponse
  /\ httpResponse.route = "DELETE /api/bulk/jobs"
  /\ httpResponse.status = 403
  /\ httpResponse.sessionId # Uploader
  /\ httpResponse.jobId \in DOMAIN bulkJobs
  /\ bulkJobs[httpResponse.jobId].status = "completed"
  /\ httpResponse.jobId \in DOMAIN resultFiles
  /\ httpResponse.jobId \in DOMAIN uploadFiles

Column(name) == CHOOSE k \in 1..Len(columns) : columns[k] = name

\* C20: in the result file written by a processJob run, every data line
\* has a Breakdown_Details cell that is a JSON list ("[]" for a row without
\* issues) and never blank, and a line whose list is empty has a
\* Score_Breakdown_Summary that is not blank.
C20_BreakdownCellsAreNeverBlank ==
  \A id \in DOMAIN resultFiles :
    \A k \in 2..Len(resultFiles[id]) :
      LET details == resultFiles[id][k][Column("Breakdown_Details")]
          summary == resultFiles[id][k][Column("Score_Breakdown_Summary")]
      IN /\ details # ""
         /\ StartsWith(details, "[") /\ EndsWith(details, "]")
         /\ details = "[]" => summary # ""

Settled(id) ==
  {k \in 1..Len(run[id].urls) : run[id].slots[k].status \in {"fulfilled", "rejected"}}

\* C21: while a run is in a batch, the processedUrls of its job is the number
\* of URLs whose processUrl call has settled so far: the count follows each
\* call as it settles and does not wait for the other calls of the batch.
C21_ProgressFollowsEachCall ==
  \A id \in DOMAIN bulkJobs :
    (run[id].pc = "batch" /\ isProcessing(id))
      => bulkJobs[id].processedUrls = Cardinality(Settled(id))

\* the number of the batch of position k, counted from 0
BatchOf(k) == (k - 1) \div maxConcurrentUrls

Started(id) == {k \in 1..Len(run[id].urls) : run[id].slots[k].status # "none"}

\* C22: within a run the calls of one batch are started together, and a call
\* of a later batch is started only when every call of the batches before it
\* has settled.
C22_BatchesDoNotOverlap ==
  \A id \in JobIds :
    \A k \in 1..Len(run[id].urls), m \in 1..Len(run[id].urls) :
      /\ (BatchOf(k) = BatchOf(m) /\ k \in Started(id)) => m \in Started(id)
      /\ (BatchOf(m) < BatchOf(k) /\ k \in Started(id)) => m \in Settled(id)

C22_Witness ==
  \E id \in JobIds :
    /\ run[id].pc = "batch"
    /\ run[id].i = maxConcurrentUrls
    /\ run[id].slots[1].status = "rejected"
    /\ \E k \in 1..Len(run[id].urls) :
         /\ BatchOf(k) = 1
         /\ run[id].slots[k].status = "pending"
    /\ \E k \in 1..Len(run[id].urls) :
         /\ BatchOf(k) = 1
         /\ run[id].slots[k].status = "fulfilled"

\* the number of UrlResults stored under a job id
ResultCount(results, id) ==
  BagCardinality([r \in getBulkUrlResults(results, id) |-> CopiesIn(r, results)])

\* the positions of the run of id whose call settles in this step
SettlesNow(id) ==
  {k \in 1..Len(run[id].urls) :
     /\ run[id].slots[k].status = "pending"
     /\ run'[id].slots[k].status \in {"fulfilled", "rejected"}}

C24_UpdateMergesNamedFields ==
  [][(call.function = "updateBulkJob" /\ ~call.done /\ call'.done) =>
       /\ bulkUrlResults' = bulkUrlResults
       /\ DOMAIN bulkJobs' = DOMAIN bulkJobs
       /\ \A other \in DOMAIN bulkJobs \ {call.jobId} : bulkJobs'[other] = bulkJobs[other]
       /\ IF call.jobId \in DOMAIN bulkJobs
          THEN /\ DOMAIN bulkJobs'[call.jobId]
                    = DOMAIN bulkJobs[call.jobId] \cup DOMAIN call.updates
               /\ \A f \in DOMAIN call.updates :
                    bulkJobs'[call.jobId][f] = call.updates[f]
               /\ \A f \in DOMAIN bulkJobs[call.jobId] \ DOMAIN call.updates :
                    bulkJobs'[call.jobId][f] = bulkJobs[call.jobId][f]
               /\ ~call'.result.undefined
               /\ call'.result.job = bulkJobs'[call.jobId]
          ELSE /\ bulkJobs' = bulkJobs
               /\ call'.result.undefined]_vars

C24_Witness ==
  /\ call.function = "updateBulkJob" /\ call.done
  /\ call.jobId = 2
  /\ call.updates = [processedUrls |-> 1]
  /\ Len(bulkJobs) = 2
  /\ bulkJobs[2].processedUrls = 1
  /\ bulkJobs[2].status = "completed"
  /\ bulkJobs[1].processedUrls = 0


(***************************************************************************)
(* C25: for a page that was analysed, each field of the row processUrl     *)
(* builds carries the extracted value of the tag it is named after: the    *)
(* robots field equals the page's robots content whenever the Meta Robots  *)
(* check is good, the title and description fields equal the extracted     *)
(* texts and titleLength and metaDescriptionLength are their lengths, and  *)
(* a field is empty, with length 0, exactly when the page lacks the tag.   *)
(***************************************************************************)
Extracted(text) == sanitizeText(Trim(text))

C25_RowFieldsCarryTheirTags ==
  (call.function = "processUrl" /\ call.done) =>
    LET page == call.page
        row == call.result
    IN /\ Trim(page.robots) # "" => row.robotsTag = Extracted(page.robots)
       /\ row.titleTag = Extracted(page.title)
       /\ row.titleLength = Len(Extracted(page.title))
       /\ row.metaDescription = Extracted(page.description)
       /\ row.metaDescriptionLength = Len(Extracted(page.description))
       /\ row.titleTag = "" <=> Trim(page.title) = ""
       /\ row.metaDescription = "" <=> Trim(page.description) = ""
       /\ row.robotsTag = "" <=> Trim(page.robots) = ""


(***************************************************************************)
(* C26: the scoring engine returns ten tag evaluations in the order of the *)
(* rubric; the breakdown has one entry for each evaluation whose status is *)
(* not good, in the same relative order and with the same deduction, and   *)
(* none for a good one; a page that passes all ten checks scores 100 with  *)
(* an empty breakdown.                                                     *)
(***************************************************************************)
RubricOrder ==
  << "Title", "Meta Description", "Meta Robots", "OG Title", "OG Description",
     "OG Image", "Twitter Card", "Twitter Title", "Twitter Description",
     "Twitter Image" >>

NotGood(t) == t.status # "good"

\* the name a breakdown entry carries for a tag evaluation
Category(tag) ==
  IF StartsWith(tag, "OG ") THEN "Open Graph"
  ELSE IF StartsWith(tag, "Twitter ") THEN "Twitter Card"
  ELSE tag

C26_BreakdownListsTheTagsNotGood ==
  Scored =>
    LET tags == call.result.tags
        flagged == SelectSeq(tags, NotGood)
        breakdown == call.result.breakdown
    IN /\ [k \in 1..Len(tags) |-> tags[k].tag] = RubricOrder
       /\ Len(breakdown) = Len(flagged)
       /\ \A k \in 1..Len(flagged) :
            /\ breakdown[k].deduction = flagged[k].deduction
            /\ breakdown[k].tag = Category(flagged[k].tag)
       /\ flagged = <<>> => (call.result.score = 100 /\ breakdown = <<>>)

C26_Witness ==
  /\ Scored
  /\ [k \in 1..10 |-> call.result.tags[k].status] =
       << "warning", "good", "missing", "good", "good", "missing", "good",
          "good", "good", "good" >>
  /\ [k \in 1..Len(call.result.breakdown) |-> call.result.breakdown[k].deduction] =
       << 10, 5, 5 >>


(***************************************************************************)
(* C27: a job whose stored status is processing has its id in the set of   *)
(* jobs being processed: the runner replaces processing by completed or    *)
(* failed before it removes the id from the set.                           *)
(***************************************************************************)
C27_ProcessingJobsAreActive ==
  \A id \in DOMAIN bulkJobs :
    bulkJobs[id].status = "processing" => isProcessing(id)

C27_Witness ==
  \E id \in DOMAIN bulkJobs :
    /\ ~isProcessing(id)
    /\ run[id].pc = "idle"
    /\ run[id].outcome = "completed"
    /\ bulkJobs[id].status = "completed"


(***************************************************************************)
(* C28: during a processJob run the job's processedUrls never exceeds the  *)
(* number of UrlResults stored under the job id: the UrlResult of a URL is *)
(* stored inside its analyzer call, before the runner counts the URL.      *)
(***************************************************************************)
C28_ProcessedUrlsHaveResults ==
  \A id \in DOMAIN bulkJobs :
    isProcessing(id) =>
      bulkJobs[id].processedUrls <= ResultCount(bulkUrlResults, id)

C28_Witness ==
  \E id \in DOMAIN bulkJobs :
    /\ isProcessing(id)
    /\ run[id].pc = "batch"
    /\ run[id].n = 1
    /\ bulkJobs[id].processedUrls = maxConcurrentUrls
    /\ ResultCount(bulkUrlResults, id) = maxConcurrentUrls + 1
    /\ \E k \in 1..Len(run[id].urls) : run[id].slots[k].status = "rejected"


(***************************************************************************)
(* C29: for the same fetched page and URL, the analysis performSeoAnalysis *)
(* of the bulk runner builds (score, tags, breakdown, and the preview      *)
(* fields for google, facebook, twitter and linkedin) equals the body      *)
(* POST /api/analyze answers with.                                         *)
(***************************************************************************)
C29_BulkAnalysisEqualsSingleAnalysis ==
  (call.function = "performSeoAnalysis" /\ call.done) =>
    call.result = AnalyzeRoute(call.page, call.url)


(***************************************************************************)
(* C30: the deductions of one analysis sum to 85 at most, which is         *)
(* 25 + 20 + 5 + 3 * 5 + 4 * 5, so the score is 15 at least and the floor  *)
(* of max(0, score) never takes effect.                                    *)
(***************************************************************************)
C30_DeductionsSumToEightyFiveAtMost ==
  Scored =>
    /\ SumOfDeductions(call.result.tags) <= 25 + 20 + 5 + 3 * 5 + 4 * 5
    /\ SumOfDeductions(call.result.breakdown) <= 85
    /\ call.result.score >= 15
    /\ call.result.score = 100 - SumOfDeductions(call.result.breakdown)

C30_Witness ==
  /\ Scored
  /\ call.page.title = ""
  /\ SumOfDeductions(call.result.tags) = 85
  /\ call.result.score = 15

====
